---- MODULE Spec2Model ----
(***************************************************************************)
(* Booster generation and balancing engine of booster-tutor:               *)
(*   boostertutor/generator.py       MtgPackGenerator                      *)
(*   boostertutor/models/mtg_pack.py MtgPack                               *)
(*   boostertutor/models/mtg_card.py MtgCard                               *)
(* Strings that the code takes apart (set codes, mana costs) are sequences *)
(* of their parts; all other strings are atoms.                            *)
(***************************************************************************)
EXTENDS Integers, Sequences, FiniteSets, TLC

\* ------------------------------------------------------------------ bounds
\* max_balancing_iterations of the generator under test (generator.py:26 has
\* the default 100; the retry recursion is the same for every value >= 1).
MaxBalancingIterations == 2
\* num_of_backups drawn for a balance-required sheet (generator.py:179 draws
\* 20; the draw, the split and the repair are the same for every value).
NumOfBackups == 2
\* cards in the balance-required slot of a pack built by hand
MaxHandCards == 6
\* boosters of a set in the catalogs that the booster resolution is tried on
MaxBoosters == 2
\* the largest number of packs or decks asked for in one call
MaxPacks == 2
\* the largest number of tags of a card of a cube
MaxTags == 2
\* the largest number of slots of a pack whose cards are listed
MaxSlots == 3

\* ------------------------------------------------------------- small helpers
Range(s) == {s[i] : i \in DOMAIN s}

RECURSIVE InjSeqs(_, _)
\* all sequences of n pairwise distinct members of S
InjSeqs(S, n) ==
    IF n = 0 THEN {<<>>}
    ELSE UNION {{Append(s, x) : x \in S \ Range(s)} : s \in InjSeqs(S, n - 1)}

RECURSIVE SumSeq(_, _)
SumSeq(s, i) == IF i > Len(s) THEN 0 ELSE s[i] + SumSeq(s, i + 1)

None == "None"

\* ------------------------------------------------------------------ catalog
\* colors = ["W", "U", "B", "R", "G"]
Colors == <<"W", "U", "B", "R", "G">>
\* keys of the colors dict of count_cards_colors, in insertion order
Buckets == <<"W", "U", "B", "R", "G", "C">>

\* A mana cost "{2}{W/U}" is the sequence of its symbols, each symbol the
\* sequence of its "/"-separated parts: << <<"2">>, <<"W", "U">> >>.
\* An absent (None or empty) mana cost is <<>>.
Meta(name, cost, colors, rarity, types, supertypes) ==
    [name |-> name, mana_cost |-> cost, colors |-> colors,
     rarity |-> rarity, types |-> types, supertypes |-> supertypes]

Uuids ==
    {"h1", "h2", "g1", "g2", "w1", "x1", "z1",
     "uw1", "uw2", "uw3", "ug1", "rr1", "rm1", "ld1",
     "ls", "jb", "jl", "jg", "go", "bf"}

\* CardDb.cards_by_id: uuid -> CardMeta.  uw2 is a second printing of uw1
\* (same name, other uuid).
CardsById ==
    [u \in Uuids |->
        CASE u = "h1" -> Meta("Mystic", << <<"W", "U">>, <<"W", "U">> >>, <<"W", "U">>, "common", {"Enchantment"}, {})
          [] u = "h2" -> Meta("Cutthroat", << <<"1">>, <<"B", "R">> >>, <<"B", "R">>, "common", {"Instant"}, {})
          [] u = "g1" -> Meta("Crasher", << <<"2">>, <<"G">> >>, <<"G">>, "common", {"Creature"}, {})
          [] u = "g2" -> Meta("Growth", << <<"G">> >>, <<"G">>, "common", {"Instant"}, {})
          [] u = "w1" -> Meta("Griffin", << <<"3">>, <<"W">> >>, <<"W">>, "common", {"Creature"}, {})
          [] u = "x1" -> Meta("Bauble", << <<"2">> >>, <<>>, "common", {"Artifact"}, {})
          [] u = "z1" -> Meta("Relic", << <<"3">> >>, <<>>, "common", {"Artifact"}, {})
          [] u = "uw1" -> Meta("Herald", << <<"3">>, <<"W">> >>, <<"W">>, "uncommon", {"Creature"}, {})
          [] u = "uw2" -> Meta("Herald", << <<"3">>, <<"W">> >>, <<"W">>, "uncommon", {"Creature"}, {})
          [] u = "uw3" -> Meta("Mentor", << <<"G", "W">> >>, <<"G", "W">>, "uncommon", {"Creature"}, {})
          [] u = "ug1" -> Meta("Overcome", << <<"3">>, <<"G">> >>, <<"G">>, "uncommon", {"Sorcery"}, {})
          [] u = "rr1" -> Meta("Awakener", << <<"1">>, <<"R">> >>, <<"R">>, "rare", {"Creature"}, {})
          [] u = "rm1" -> Meta("Charm", << <<"W">>, <<"B">> >>, <<"W", "B">>, "rare", {"Instant"}, {})
          [] u = "ld1" -> Meta("Caves", <<>>, <<>>, "common", {"Land"}, {})
          [] u = "ls" -> Meta("Lightning Strike", << <<"1">>, <<"R">> >>, <<"R">>, "common", {"Instant"}, {})
          [] u = "jb" -> Meta("Lightning Bolt", << <<"R">> >>, <<"R">>, "uncommon", {"Instant"}, {})
          [] u = "jl" -> Meta("Goblin Lore", << <<"1">>, <<"R">> >>, <<"R">>, "uncommon", {"Sorcery"}, {})
          [] u = "jg" -> Meta("Goblin Shortcutter", << <<"1">>, <<"R">> >>, <<"R">>, "common", {"Creature"}, {})
          [] u = "go" -> Meta("Goblin Oriflamme", << <<"1">>, <<"R">> >>, <<"R">>, "uncommon", {"Enchantment"}, {})
          [] u = "bf" -> Meta("Forest", <<>>, <<>>, "common", {"Land"}, {"Basic"})]

\* CardMeta.set_code of every card of the index, as loaded from the database
SetCodeOf(u) ==
    IF u \in {"jb", "jl", "jg"} THEN <<"J", "M", "P">>
    ELSE IF u = "go" THEN <<"A", "J", "M", "P">>
    ELSE <<"M", "2", "1">>

\* the rows of the cards table, in the order the database returns them
CardRows ==
    <<"h1", "h2", "g1", "g2", "w1", "x1", "z1", "uw1", "uw2", "uw3", "ug1",
      "rr1", "rm1", "ld1", "ls", "jb", "jl", "jg", "go", "bf">>

\* SetMeta.cards: the cards whose set_code was the set's code when the
\* relationship was loaded
SetCards(code) == SelectSeq(CardRows, LAMBDA u : SetCodeOf(u) = code)

\* the catalog right after the generator is constructed
Catalog0 == [set_code |-> [u \in Uuids |-> SetCodeOf(u)]]

\* MtgCard(meta, foil): the card object of a pack; meta is the CardMeta's uuid
MtgCard(meta, foil) == [meta |-> meta, foil |-> foil]

\* SheetCardMeta.data is None when the cards table has no row of the uuid;
\* reading an attribute of card.meta then raises AttributeError
HasData(card) == card.meta \in DOMAIN CardsById

NoDataIn(list) == \E i \in DOMAIN list : ~HasData(list[i])

\* --------------------------------------------------------------- MtgCard.mana
RECURSIVE HybridParts(_, _)
\* hybrid += symbol.split("/") for every symbol of cost that contains "/"
HybridParts(cost, i) ==
    IF i > Len(cost) THEN <<>>
    ELSE (IF Len(cost[i]) > 1 THEN cost[i] ELSE <<>>) \o HybridParts(cost, i + 1)

\* Each member of the result is a string, kept as the sequence of its
\* characters: "W" is <<"W">>, the hybrid "WU" is <<"W", "U">>.
mana(card) ==
    LET meta == CardsById[card.meta]
        cost == meta.mana_cost
        mono == SelectSeq(Colors, LAMBDA c : <<c>> \in Range(cost))
        hybrid == HybridParts(cost, 1)
        hybrid_colors == SelectSeq(Colors, LAMBDA c : c \in Range(hybrid))
    IN  IF cost # <<>>
        THEN IF mono # <<>>
             THEN [i \in DOMAIN mono |-> <<mono[i]>>]
             ELSE IF Len(hybrid_colors) = 2
                  THEN << <<hybrid_colors[1], hybrid_colors[2]>> >>
                  ELSE [i \in DOMAIN hybrid_colors |-> <<hybrid_colors[i]>>]
        ELSE [i \in DOMAIN meta.colors |-> <<meta.colors[i]>>]

\* ------------------------------------------------------- MtgCard.pack_sort_key
RarityOrder == <<"mythic", "rare", "uncommon", "common", "special", "bonus">>

RarityIndex(r) == CHOOSE i \in DOMAIN RarityOrder : RarityOrder[i] = r

BoolInt(b) == IF b THEN 1 ELSE 0

pack_sort_key(card) ==
    LET meta == CardsById[card.meta]
        is_common_land == "Land" \in meta.types /\ meta.rarity = "common"
        is_basic_land == "Land" \in meta.types /\ "Basic" \in meta.supertypes
    IN  <<BoolInt(is_common_land) + BoolInt(is_basic_land), BoolInt(card.foil),
          RarityIndex(meta.rarity) - 1>>

\* tuple comparison a < b
KeyLess(a, b) ==
    \/ a[1] < b[1]
    \/ a[1] = b[1] /\ a[2] < b[2]
    \/ a[1] = b[1] /\ a[2] = b[2] /\ a[3] < b[3]

\* ------------------------------------------------------------------- MtgPack
RECURSIVE SlotCards(_, _)
\* [card for slot in content.values() for card in slot["cards"]]
SlotCards(content, i) ==
    IF i > Len(content) THEN <<>>
    ELSE content[i].cards \o SlotCards(content, i + 1)

\* a plausible slip: the sort is not stable, x goes before the members of
\* its key
InsertSortedFirst(sorted, x) ==
    LET k == Cardinality({j \in DOMAIN sorted :
                 KeyLess(pack_sort_key(sorted[j]), pack_sort_key(x))})
    IN  SubSeq(sorted, 1, k) \o <<x>> \o SubSeq(sorted, k + 1, Len(sorted))

\* list.sort(key=...) is stable: insert x after the last member whose key is
\* not greater than x's
InsertSorted(sorted, x) ==
    LET k == Cardinality({j \in DOMAIN sorted :
                 ~KeyLess(pack_sort_key(x), pack_sort_key(sorted[j]))})
    IN  SubSeq(sorted, 1, k) \o <<x>> \o SubSeq(sorted, k + 1, Len(sorted))

RECURSIVE SortFrom(_, _, _)
SortFrom(sorted, list, i) ==
    IF i > Len(list) THEN sorted
    ELSE SortFrom(InsertSorted(sorted, list[i]), list, i + 1)

\* the cards property
cards(content) == SortFrom(<<>>, SlotCards(content, 1), 1)

can_be_balanced(content) == \E i \in DOMAIN content : content[i].balance

\* a plausible slip: foil cards are not left out
HasDuplicatesWithFoil(content) ==
    LET all == cards(content)
        names == [i \in DOMAIN all |-> CardsById[all[i].meta].name]
    IN  Len(names) # Cardinality(Range(names))

\* a plausible slip: the check is dropped
HasDuplicatesNever(content) == FALSE

has_duplicates(content) ==
    LET all == cards(content)
        cards_names == SelectSeq(all, LAMBDA c : ~c.foil)
        names == [i \in DOMAIN cards_names |-> CardsById[cards_names[i].meta].name]
    IN  Len(names) # Cardinality(Range(names))

RECURSIVE AppendEach(_, _, _, _)
\* for color in keys: colors[color].append(card)
AppendEach(colors, keys, i, card) ==
    IF i > Len(keys) THEN colors
    ELSE AppendEach([colors EXCEPT ![keys[i]] = Append(@, card)], keys, i + 1, card)

\* a plausible slip: the count_hybrids flag is ignored
AddCardHybridAlways(colors, card, count_hybrids) ==
    LET m == mana(card)
    IN  IF Len(m) = 1 THEN AppendEach(colors, m[1], 1, card)
        ELSE IF Len(m) = 0 THEN [colors EXCEPT !["C"] = Append(@, card)]
        ELSE colors

\* the body of the loop "for card in card_list" of count_cards_colors
AddCard(colors, card, count_hybrids) ==
    LET m == mana(card)
    IN  IF Len(m) = 1
        THEN IF count_hybrids
             THEN AppendEach(colors, m[1], 1, card)
             ELSE IF Len(m[1]) = 1
                  THEN [colors EXCEPT ![m[1][1]] = Append(@, card)]
                  ELSE colors
        ELSE IF Len(m) = 0
             THEN [colors EXCEPT !["C"] = Append(@, card)]
             ELSE colors

RECURSIVE CountLoop(_, _, _, _)
CountLoop(colors, card_list, i, count_hybrids) ==
    IF i > Len(card_list) THEN colors
    ELSE CountLoop(AddCard(colors, card_list[i], count_hybrids), card_list,
                   i + 1, count_hybrids)

count_cards_colors(card_list, count_hybrids) ==
    LET colors == CountLoop([k \in Range(Buckets) |-> <<>>], card_list, 1,
                            count_hybrids)
    IN  [colors |-> colors, counts |-> [k \in Range(Buckets) |-> Len(colors[k])]]

\* max(counts.values())
MaxCount(counts) ==
    CHOOSE v \in {counts[k] : k \in Range(Buckets)} :
        \A k \in Range(Buckets) : counts[k] <= v

\* a plausible slip: the colorless bucket is left out of the maximum
MaxCardsPerPrimaryColor(slot) ==
    LET counts == count_cards_colors(slot.cards, TRUE).counts
    IN  CHOOSE v \in {counts[c] : c \in Range(Colors)} :
            \A c \in Range(Colors) : counts[c] <= v

max_cards_per_color(slot) == MaxCount(count_cards_colors(slot.cards, TRUE).counts)

contains_creature(slot) ==
    \E i \in DOMAIN slot.cards : "Creature" \in CardsById[slot.cards[i].meta].types

\* missing = sum([v == 0 for v in list(common_counts.values())[:5]])
Missing(counts) == Cardinality({i \in 1..5 : counts[Buckets[i]] = 0})

\* --------------------------------------------------------- catalog: boosters
SheetCard(uuid, weight) == [uuid |-> uuid, weight |-> weight]

Sheet(name, is_foil, balance_colors, sheet_cards) ==
    [name |-> name, is_foil |-> is_foil, balance_colors |-> balance_colors,
     cards |-> sheet_cards]

Content(sheet, num_picks) == [sheet |-> sheet, num_picks |-> num_picks]

Variation(weight, content) == [weight |-> weight, content |-> content]

M21 == <<"M", "2", "1">>

\* the sheets of the M21 draft booster, by name
M21Sheets ==
    [n \in {"common", "uncommon", "rare", "wildcard", "foil"} |->
        CASE n = "common" ->
               Sheet(n, FALSE, TRUE,
                     <<SheetCard("h1", 1), SheetCard("h2", 1), SheetCard("g1", 2),
                       SheetCard("g2", 2), SheetCard("w1", 2), SheetCard("x1", 1),
                       SheetCard("z1", 0)>>)
          [] n = "uncommon" ->
               Sheet(n, FALSE, FALSE,
                     <<SheetCard("uw1", 1), SheetCard("uw2", 1),
                       SheetCard("uw3", 1), SheetCard("ug1", 1)>>)
          [] n = "rare" ->
               Sheet(n, FALSE, FALSE, <<SheetCard("rr1", 7), SheetCard("rm1", 1)>>)
          [] n = "wildcard" ->
               Sheet(n, FALSE, FALSE, <<SheetCard("g1", 1), SheetCard("ld1", 5)>>)
          [] n = "foil" ->
               Sheet(n, TRUE, FALSE, <<SheetCard("rr1", 1), SheetCard("uw1", 3)>>)]

M21Draft ==
    [name |-> "draft", set_code |-> M21, sheets |-> M21Sheets,
     variations |->
        <<Variation(3, <<Content("common", 3), Content("wildcard", 1)>>),
          Variation(1, <<Content("uncommon", 3), Content("rare", 1),
                         Content("foil", 1)>>)>>]

\* a set with sheet entries whose card ids ("nx1", "nx2") the card index
\* does not have, and with a play-arena booster but no arena booster
MIS == <<"M", "I", "S">>

MisSheets ==
    [n \in {"common", "wildcard"} |->
        CASE n = "common" ->
               Sheet(n, FALSE, TRUE,
                     <<SheetCard("h1", 1), SheetCard("h2", 1), SheetCard("g1", 2),
                       SheetCard("g2", 2), SheetCard("w1", 2), SheetCard("nx2", 1)>>)
          [] n = "wildcard" ->
               Sheet(n, FALSE, FALSE,
                     <<SheetCard("g1", 1), SheetCard("ld1", 5), SheetCard("nx1", 1)>>)]

MisDraft ==
    [name |-> "draft", set_code |-> MIS, sheets |-> MisSheets,
     variations |-> <<Variation(1, <<Content("common", 3), Content("wildcard", 1)>>)>>]

MisPlayArena ==
    [name |-> "play-arena", set_code |-> MIS,
     sheets |-> [n \in {"rare"} |->
                   Sheet(n, FALSE, FALSE, <<SheetCard("rr1", 7), SheetCard("rm1", 1)>>)],
     variations |-> <<Variation(1, <<Content("rare", 1)>>)>>]

\* a small set with a default booster only
TNY == <<"T", "N", "Y">>

TnyDefault ==
    [name |-> "default", set_code |-> TNY,
     sheets |-> [n \in {"rare"} |->
                   Sheet(n, FALSE, FALSE, <<SheetCard("rr1", 1), SheetCard("rm1", 1)>>)],
     variations |-> <<Variation(1, <<Content("rare", 1)>>)>>]

\* Jumpstart: every variation of the jumpstart booster is a deck, its one
\* content entry names the sheet with the deck's cards (weight = copies)
JMP == <<"J", "M", "P">>

JmpJumpstart ==
    [name |-> "jumpstart", set_code |-> JMP,
     sheets |-> [n \in {"Goblins (1)", "Lightning (1)"} |->
                   IF n = "Goblins (1)"
                   THEN Sheet(n, FALSE, FALSE, <<SheetCard("jg", 2), SheetCard("jl", 1)>>)
                   ELSE Sheet(n, FALSE, FALSE, <<SheetCard("jb", 1), SheetCard("jg", 1)>>)],
     variations |-> <<Variation(1, <<Content("Goblins (1)", 1)>>),
                      Variation(2, <<Content("Lightning (1)", 1)>>)>>]

\* sets without boosters
AJMP == <<"A", "J", "M", "P">>
NOB == <<"N", "O", "B">>

\* CardDb.sets: code -> SetMeta; boosters is the relationship list __boosters
SetCodes == {M21, MIS, TNY, JMP, AJMP, NOB}

\* the keys of CardDb.sets in their order (sets.sort(), by release date)
SetOrder == <<JMP, M21, AJMP, TNY, MIS, NOB>>

sets ==
    [c \in SetCodes |->
        [code |-> c,
         name |-> CASE c = M21 -> "Core Set 2021" [] c = MIS -> "Missing"
                    [] c = TNY -> "Tiny" [] c = JMP -> "Jumpstart"
                    [] c = AJMP -> "Jumpstart Arena Exclusives" [] c = NOB -> "No Boosters",
         cards |-> SetCards(c),
         boosters |-> CASE c = M21 -> <<M21Draft>>
                        [] c = MIS -> <<MisDraft, MisPlayArena>>
                        [] c = TNY -> <<TnyDefault>>
                        [] c = JMP -> <<JmpJumpstart>>
                        [] c = AJMP -> <<>>
                        [] c = NOB -> <<>>]]

\* SetMeta.boosters: {b.name: b for b in self.__boosters}
BoosterNames(set_meta) == {set_meta.boosters[i].name : i \in DOMAIN set_meta.boosters}

\* a later booster of the same name replaces an earlier one in the dict
Booster(set_meta, b_type) ==
    LET last == CHOOSE i \in DOMAIN set_meta.boosters :
                    /\ set_meta.boosters[i].name = b_type
                    /\ \A j \in DOMAIN set_meta.boosters :
                         set_meta.boosters[j].name = b_type => j <= i
    IN  set_meta.boosters[last]

\* BoosterMeta.total_weight
total_weight(weighted) == SumSeq([i \in DOMAIN weighted |-> weighted[i].weight], 1)

\* ---------------------------------------------------------- MtgPackGenerator
UpperChar(c) ==
    CASE c = "a" -> "A" [] c = "m" -> "M" [] c = "s" -> "S" [] c = "i" -> "I"
      [] c = "r" -> "R" [] c = "p" -> "P" [] c = "o" -> "O" [] c = "z" -> "Z"
      [] c = "n" -> "N" [] c = "x" -> "X" [] c = "t" -> "T" [] c = "y" -> "Y"
      [] c = "j" -> "J" [] c = "b" -> "B" [] OTHER -> c

\* str.upper()
upper(s) == [i \in DOMAIN s |-> UpperChar(s[i])]

Raise(error) == [ok |-> FALSE, error |-> error]

\* a plausible slip: a requested type the set does not have is replaced by
\* the first booster of the set
SelectBoosterLenient(s, set_meta, b_type) ==
    IF b_type \in BoosterNames(set_meta)
    THEN {[ok |-> TRUE, set |-> set_meta.code, booster |-> b_type]}
    ELSE {[ok |-> TRUE, set |-> set_meta.code, booster |-> set_meta.boosters[1].name]}

\* a plausible slip: the play booster is preferred to the draft booster
SelectBoosterPlayFirst(s, set_meta, b_type) ==
    LET boosters == BoosterNames(set_meta)
        Ok(b) == [ok |-> TRUE, set |-> set_meta.code, booster |-> b]
    IN  IF b_type # None
        THEN IF b_type \in boosters THEN {Ok(b_type)}
             ELSE IF b_type = "arena" /\ "play-arena" \in boosters
                  THEN {Ok("play-arena")} ELSE {Raise("ValueError")}
        ELSE IF "play" \in boosters THEN {Ok("play")}
        ELSE IF "draft" \in boosters THEN {Ok("draft")}
        ELSE IF "default" \in boosters THEN {Ok("default")}
        ELSE IF set_meta.boosters = <<>> THEN {Raise("StopIteration")}
        ELSE {Ok(set_meta.boosters[1].name)}

\* the booster type the code settles on once the set is known; a set of
\* outcomes, because SIR and PIO pick their arena booster at random
SelectBooster(s, set_meta, b_type) ==
    LET boosters == BoosterNames(set_meta)
        Ok(b) == IF b \in boosters
                 THEN [ok |-> TRUE, set |-> set_meta.code, booster |-> b]
                 ELSE Raise("KeyError")
    IN  IF b_type # None
        THEN IF b_type \notin boosters
             THEN IF b_type = "arena" /\ "play-arena" \in boosters
                  THEN {Ok("play-arena")}
                  ELSE {Raise("ValueError")}
             ELSE {Ok(b_type)}
        ELSE IF s = <<"S", "I", "R">>
        THEN {Ok(b) : b \in {"arena-1", "arena-2", "arena-3", "arena-4"}}
        ELSE IF s = <<"P", "I", "O">>
        THEN {Ok(b) : b \in {"arena-1", "arena-2", "arena-3"}}
        ELSE IF "draft" \in boosters THEN {Ok("draft")}
        ELSE IF "play" \in boosters THEN {Ok("play")}
        ELSE IF "default" \in boosters THEN {Ok("default")}
        ELSE IF set_meta.boosters = <<>> THEN {Raise("StopIteration")}
        ELSE {Ok(set_meta.boosters[1].name)}

\* a plausible slip: the set is looked up with the prefix still on its code
ResolveNoStrip(data_sets, set, booster_type) ==
    LET s == upper(set)
    IN  IF s \notin DOMAIN data_sets
        THEN {Raise("AssertionError")}
        ELSE SelectBooster(s, data_sets[s], booster_type)

\* get_set_booster_meta_pair of a generator whose self.data.sets is data_sets
Resolve(data_sets, set, booster_type) ==
    LET up == upper(set)
        arena == Len(up) >= 2 /\ up[1] = "A" /\ up[2] = "-"
        s == IF arena THEN SubSeq(up, 3, Len(up)) ELSE up
        b_type == IF arena THEN "arena" ELSE booster_type
    IN  IF arena /\ booster_type \notin {None, "arena", "play-arena"}
        THEN {Raise("AssertionError")}
        ELSE IF s \notin DOMAIN data_sets
        THEN {Raise("AssertionError")}
        ELSE SelectBooster(s, data_sets[s], b_type)

get_set_booster_meta_pair(set, booster_type) == Resolve(sets, set, booster_type)

\* a plausible slip: the weights are ignored
PicksAnyWeight(sheet, size) == InjSeqs(Range(sheet.cards), size)

\* choice(sheet.cards, size, replace=False, p=cards_p): every sequence of
\* size pairwise distinct sheet cards of probability > 0
Picks(sheet, size) ==
    InjSeqs({sheet.cards[i] : i \in {j \in DOMAIN sheet.cards : sheet.cards[j].weight > 0}},
            size)

\* the sampling fails (numpy raises ValueError, or the division by a total
\* weight of 0 raises) instead of returning picks
PicksRaise(sheet, size) ==
    \/ total_weight(sheet.cards) = 0
    \/ size > Cardinality({j \in DOMAIN sheet.cards : sheet.cards[j].weight > 0})

num_of_backups(sheet) == IF sheet.balance_colors THEN NumOfBackups ELSE 0

\* the slot built from the picks of one content entry (lines 192-207)
Slot(content, sheet, picks) ==
    LET n == content.num_picks
        slot_content == [i \in 1..n |-> MtgCard(picks[i].uuid, sheet.is_foil)]
        slot_backup == [i \in 1..(Len(picks) - n) |->
                           MtgCard(picks[n + i].uuid, sheet.is_foil)]
    IN  [name |-> sheet.name, cards |-> slot_content,
         balance |-> sheet.balance_colors,
         has_backups |-> num_of_backups(sheet) # 0,
         backups |-> IF num_of_backups(sheet) # 0 THEN slot_backup ELSE <<>>]

RECURSIVE AllPicks(_, _, _)
\* every sequence of picks the loop over booster_content can draw, one
\* member per content entry
AllPicks(booster, booster_content, i) ==
    IF i = 0 THEN {<<>>}
    ELSE LET content == booster_content[i]
             sheet == booster.sheets[content.sheet]
         IN  {Append(before, picks) :
                 before \in AllPicks(booster, booster_content, i - 1),
                 picks \in Picks(sheet, content.num_picks + num_of_backups(sheet))}

\* pack_content of the picks drawn
PackContent(booster, booster_content, picks) ==
    [i \in DOMAIN booster_content |->
        Slot(booster_content[i], booster.sheets[booster_content[i].sheet], picks[i])]

ContentRaises(booster, booster_content) ==
    \E i \in DOMAIN booster_content :
        LET sheet == booster.sheets[booster_content[i].sheet]
        IN  PicksRaise(sheet, booster_content[i].num_picks + num_of_backups(sheet))

\* a plausible slip: off by one
LastAttemptLate(its) == its <= 0

\* a plausible slip: the budget of a pack without a balance-required sheet
\* is left as it is
IterationsLeftKept(balance, its) == its

\* if not balance: iterations = 1 (lines 216-218)
IterationsLeft(balance, its) == IF balance THEN its ELSE 1

\* a plausible slip: the retry does not pass the booster type on
RetryArgsNoType(r) == [set |-> r.set, booster_type |-> None]

\* the arguments of the recursive call (lines 227-229): set_meta.code and
\* booster_meta.name of the pair this attempt has resolved
RetryArgs(r) == [set |-> r.set, booster_type |-> r.booster]

\* if iterations <= 1: the pack is returned without is_balanced (line 220)
LastAttempt(its) == its <= 1

\* ------------------------------------------------ MtgPack.rebalance_commons
\* a plausible slip: the swapped card is removed and the backup not put in
ReplaceCardDrop(list, swap, bkp) == SelectSeq(list, LAMBDA c : c # swap)

\* [bkp if c is swap else c for c in slot["cards"]]
ReplaceCard(list, swap, bkp) ==
    [i \in DOMAIN list |-> IF list[i] = swap THEN bkp ELSE list[i]]

\* a plausible slip: the backup stays in the backups
RemoveCardKeep(list, bkp) == list

\* [c for c in slot["backups"] if c is not bkp]
RemoveCard(list, bkp) == SelectSeq(list, LAMBDA c : c # bkp)

\* list.pop() returns the last member
Last(list) == list[Len(list)]

\* a plausible slip: "C" stays among the colors to take a card from
SwapColorsKeepC(common_counts) ==
    SelectSeq(Buckets, LAMBDA k : common_counts[k] = MaxCount(common_counts))

\* swap_colors after the removal of "C"
swap_colors(common_counts) ==
    LET max_count == MaxCount(common_counts)
        all == SelectSeq(Buckets, LAMBDA k : common_counts[k] = max_count)
    IN  IF Len(all) > 1 /\ "C" \in Range(all)
        THEN SelectSeq(all, LAMBDA k : k # "C")
        ELSE all

\* the slot after the swap of one card of swap_color for a backup of color
Swap(slot, swap_color, color) ==
    LET common_colors == count_cards_colors(slot.cards, TRUE).colors
        bkp_colors == count_cards_colors(slot.backups, TRUE).colors
        swap == Last(common_colors[swap_color])
        bkp == Last(bkp_colors[color])
    IN  [slot EXCEPT !.cards = ReplaceCard(slot.cards, swap, bkp),
                     !.backups = RemoveCard(slot.backups, bkp)]

\* One invocation of rebalance_commons up to its return or its recursive
\* call: the set of its outcomes (choice(swap_colors) is random).
rebalance_commons(slot) ==
    LET common_counts == count_cards_colors(slot.cards, TRUE).counts
        bkp_counts == count_cards_colors(slot.backups, TRUE).counts
        missing_colors == SelectSeq(Colors, LAMBDA c : common_counts[c] = 0)
        color == missing_colors[1]
    IN  IF missing_colors # <<>>
        THEN IF bkp_counts[color] # 0
             THEN IF MaxCount(common_counts) > 1
                  THEN {[kind |-> "recurse", slot |-> Swap(slot, sc, color)] :
                            sc \in Range(swap_colors(common_counts))}
                  ELSE {[kind |-> "return", value |-> FALSE, slot |-> slot]}
             ELSE {[kind |-> "return", value |-> FALSE, slot |-> slot]}
        ELSE {[kind |-> "return", value |-> TRUE, slot |-> slot]}

\* a plausible slip: the rebalance flag is ignored
BalancedCommonsAlwaysRepair(slot, flag) ==
    IF Missing(count_cards_colors(slot.cards, TRUE).counts) # 0
    THEN "rebalance" ELSE "True"

\* balanced_commons up to its return or its call of rebalance_commons:
\* "True", "False", "rebalance" or "AssertionError"
balanced_commons(slot, flag) ==
    IF flag /\ ~slot.has_backups THEN "AssertionError"
    ELSE IF Missing(count_cards_colors(slot.cards, TRUE).counts) # 0
         THEN IF flag THEN "rebalance" ELSE "False"
         ELSE "True"

\* a plausible slip: the creature check is dropped
CommonsChecksNoCreature(slot) == max_cards_per_color(slot) <= 4

\* is_balanced, lines 52-65: the checks that follow balanced_commons
CommonsChecks(slot) == max_cards_per_color(slot) <= 4 /\ contains_creature(slot)

\* a plausible slip: any card of the slot, not the first, decides
IsUncommonSlotAny(slot) ==
    \E i \in DOMAIN slot.cards :
        ~slot.cards[i].foil /\ CardsById[slot.cards[i].meta].rarity = "uncommon"

\* is_balanced, lines 66-69: the test of a slot that is not balance-required
IsUncommonSlot(slot) ==
    /\ ~slot.cards[1].foil
    /\ CardsById[slot.cards[1].meta].rarity = "uncommon"

\* is_balanced, lines 70-76
UncommonsCheck(slot) == IsUncommonSlot(slot) => max_cards_per_color(slot) <= 2

\* ------------------------------------------------------- packs built by hand
\* MtgPack(content) called directly, as the fixtures of tests/conftest.py do:
\* one balance-required slot holding the first k cards of a fixed list
HandCards ==
    <<MtgCard("h1", FALSE), MtgCard("h2", FALSE), MtgCard("uw3", FALSE),
      MtgCard("w1", FALSE), MtgCard("uw1", FALSE), MtgCard("uw2", FALSE),
      MtgCard("g1", FALSE), MtgCard("g2", FALSE)>>

HandContent(k, backups) ==
    <<[name |-> "nonlandCommon", cards |-> SubSeq(HandCards, 1, k),
       balance |-> TRUE, has_backups |-> TRUE, backups |-> backups]>>

HandContents ==
    {HandContent(k, b) : k \in 2..MaxHandCards,
                         b \in {<<>>, <<MtgCard("x1", FALSE), MtgCard("ug1", FALSE)>>}}

\* --------------------------------------------------------------------- state
VARIABLES
    pc,          \* where the program is: "idle", "internal" (_get_pack_internal
                 \* is about to run), "is_balanced" (in the slot loop),
                 \* "rebalance" (in rebalance_commons), "returned", "raised"
    pack,        \* the MtgPack under construction or held by the caller
    call,        \* arguments of the pending _get_pack_internal call
    iterations,  \* its iterations argument
    passes,      \* sampling passes made by the current get_pack call
    picked,      \* the picks of the pass that has just built the pack
    caller,      \* who called is_balanced: "get_pack" or "user"
    rebalance,   \* the rebalance argument of the running is_balanced call
    slot_i,      \* position of the slot loop of is_balanced
    depth,       \* rebalance_commons calls that have called themselves
    backups0,    \* len(slot["backups"]) when rebalance_commons was entered
    result,      \* the last is_balanced call on the pack as it is now
    counted,     \* the last count_cards_colors call
    catalog,     \* the fields of the catalog objects that the code assigns to
    job,         \* the public operation that is running or has run last, its
                 \* arguments and the packs it has collected
    probe        \* arguments and result of a call of a function without state

vars == <<pc, pack, call, iterations, passes, picked, caller, rebalance, slot_i,
          depth, backups0, result, counted, catalog, job, probe>>

\* what the operations on one pack leave alone
others == <<catalog, job, probe>>

NoPack == [content |-> <<>>, set |-> <<>>, type |-> None]
NoCall == [set |-> <<>>, booster_type |-> None]
NoResult == [rebalance |-> FALSE, value |-> None]
NoCount == [slot |-> 0, count_hybrids |-> FALSE, value |-> None]
NoJob == [op |-> None]
NoProbe == [op |-> None]

\* MtgPack(content, set, name, type)
MtgPack(content, set, type) == [content |-> content, set |-> set, type |-> type]

\* arguments the callers pass to get_pack
SetArgs == {<<"m", "2", "1">>}
BoosterTypeArgs == {None}

\* the generator is constructed and no call has been made
InitPack ==
    /\ pc = "idle"
    /\ pack = NoPack
    /\ call = NoCall
    /\ iterations = 0
    /\ passes = 0
    /\ picked = <<>>
    /\ caller = None
    /\ rebalance = FALSE
    /\ slot_i = 0
    /\ depth = 0
    /\ backups0 = 0
    /\ result = NoResult
    /\ counted = NoCount

packvars == <<pc, pack, call, iterations, passes, picked, caller, rebalance,
              slot_i, depth, backups0, result, counted>>

Init ==
    /\ InitPack
    /\ catalog = Catalog0
    /\ job = NoJob
    /\ probe = NoProbe

NoCheck == /\ caller' = None /\ rebalance' = FALSE /\ slot_i' = 0
           /\ depth' = 0 /\ backups0' = 0

\* an exception leaves get_pack (no pack is returned) or is_balanced (the
\* caller keeps the pack)
Raised(kept) ==
    /\ pc' = "raised"
    /\ pack' = kept
    /\ call' = NoCall
    /\ iterations' = 0
    /\ picked' = <<>>
    /\ NoCheck
    /\ result' = NoResult
    /\ counted' = NoCount
    /\ UNCHANGED passes

\* get_pack(set, balance, booster_type), up to its call of _get_pack_internal
GetPack(set, balance, booster_type) ==
    /\ pc \in {"idle", "returned", "raised"}
    /\ pc' = "internal"
    /\ pack' = NoPack
    /\ call' = [set |-> set, booster_type |-> booster_type]
    /\ iterations' = IF balance THEN MaxBalancingIterations ELSE 1
    /\ passes' = 0
    /\ picked' = <<>>
    /\ NoCheck
    /\ result' = NoResult
    /\ counted' = NoCount

\* _get_pack_internal, lines 160-220: one sampling pass, up to the return of
\* the pack or the call of is_balanced(rebalance=True)
GetPackInternal ==
    /\ pc = "internal"
    /\ \E r \in get_set_booster_meta_pair(call.set, call.booster_type) :
         IF ~r.ok THEN Raised(NoPack)
         ELSE LET booster_meta == Booster(sets[r.set], r.booster)
              IN  IF total_weight(booster_meta.variations) = 0 THEN Raised(NoPack)
                  ELSE \E v_index \in {i \in DOMAIN booster_meta.variations :
                                          booster_meta.variations[i].weight > 0} :
                       LET booster_content == booster_meta.variations[v_index].content
                           balance == \E i \in DOMAIN booster_content :
                               booster_meta.sheets[booster_content[i].sheet].balance_colors
                           its == IterationsLeft(balance, iterations)
                       IN  IF ContentRaises(booster_meta, booster_content)
                           THEN Raised(NoPack)
                           ELSE \E picks \in AllPicks(booster_meta, booster_content,
                                                      Len(booster_content)) :
                                /\ pack' = MtgPack(PackContent(booster_meta,
                                               booster_content, picks), r.set, r.booster)
                                /\ picked' = picks
                                /\ call' = RetryArgs(r)
                                /\ iterations' = its
                                /\ passes' = passes + 1
                                /\ result' = NoResult
                                /\ counted' = NoCount
                                /\ depth' = 0
                                /\ backups0' = 0
                                /\ IF LastAttempt(its)
                                   THEN /\ pc' = "returned"
                                        /\ caller' = None
                                        /\ rebalance' = FALSE
                                        /\ slot_i' = 0
                                   ELSE /\ pc' = "is_balanced"
                                        /\ caller' = "get_pack"
                                        /\ rebalance' = TRUE
                                        /\ slot_i' = 1

\* is_balanced returns value: to _get_pack_internal (lines 220-230), which
\* returns the pack or calls itself with iterations - 1, or to the user
Return(value, content) ==
    /\ NoCheck
    /\ counted' = NoCount
    /\ picked' = <<>>
    /\ UNCHANGED passes
    /\ IF caller = "get_pack" /\ ~value
       THEN /\ pc' = "internal"
            /\ pack' = NoPack
            /\ iterations' = iterations - 1
            /\ result' = NoResult
            /\ UNCHANGED call
       ELSE /\ pc' = "returned"
            /\ pack' = [pack EXCEPT !.content = content]
            /\ result' = [rebalance |-> rebalance,
                          value |-> IF value THEN "True" ELSE "False"]
            /\ UNCHANGED <<call, iterations>>

\* the slot loop goes on with the next slot
NextSlot(content) ==
    /\ pc' = "is_balanced"
    /\ pack' = [pack EXCEPT !.content = content]
    /\ slot_i' = slot_i + 1
    /\ depth' = 0
    /\ backups0' = 0
    /\ picked' = <<>>
    /\ UNCHANGED <<call, iterations, passes, caller, rebalance, result, counted>>

\* is_balanced, one pass of the loop over the slots (lines 41-76), up to the
\* call of rebalance_commons when the slot needs a repair
IsBalancedSlot ==
    /\ pc = "is_balanced"
    /\ slot_i <= Len(pack.content)
    /\ LET slot == pack.content[slot_i]
           kept == IF caller = "user" THEN pack ELSE NoPack
       IN  IF NoDataIn(slot.cards)
           THEN Raised(kept)
           ELSE IF slot.balance
           THEN LET b == balanced_commons(slot, rebalance)
                IN  IF b = "AssertionError" THEN Raised(kept)
                    ELSE IF b = "rebalance"
                    THEN /\ pc' = "rebalance"
                         /\ depth' = 0
                         /\ backups0' = Len(slot.backups)
                         /\ picked' = <<>>
                         /\ UNCHANGED <<pack, call, iterations, passes, caller,
                                        rebalance, slot_i, result, counted>>
                    ELSE IF b = "True" /\ CommonsChecks(slot)
                    THEN NextSlot(pack.content)
                    ELSE Return(FALSE, pack.content)
           ELSE IF slot.cards = <<>>
                THEN Raised(kept)
                ELSE IF UncommonsCheck(slot)
                     THEN NextSlot(pack.content)
                     ELSE Return(FALSE, pack.content)

\* one invocation of rebalance_commons (lines 132-170); when it returns, the
\* value goes back through balanced_commons to is_balanced
RebalanceCommons ==
    /\ pc = "rebalance"
    /\ IF NoDataIn(pack.content[slot_i].backups)
       THEN Raised(IF caller = "user" THEN pack ELSE NoPack)
       ELSE
       \E out \in rebalance_commons(pack.content[slot_i]) :
         LET content == [pack.content EXCEPT ![slot_i] = out.slot]
         IN  IF out.kind = "recurse"
             THEN /\ pack' = [pack EXCEPT !.content = content]
                  /\ depth' = depth + 1
                  /\ result' = NoResult
                  /\ UNCHANGED <<pc, call, iterations, passes, picked, caller,
                                 rebalance, slot_i, backups0, counted>>
             ELSE IF out.value /\ CommonsChecks(out.slot)
                  THEN NextSlot(content)
                  ELSE Return(FALSE, content)

\* is_balanced after the loop (lines 78-83)
IsBalancedEnd ==
    /\ pc = "is_balanced"
    /\ slot_i > Len(pack.content)
    /\ IF \E i \in DOMAIN pack.content : NoDataIn(pack.content[i].cards)
       THEN Raised(IF caller = "user" THEN pack ELSE NoPack)
       ELSE Return(~has_duplicates(pack.content), pack.content)

\* a caller builds a pack by hand: MtgPack(content)
UserMtgPack(content) ==
    /\ pc \in {"idle", "returned", "raised"}
    /\ pc' = "returned"
    /\ pack' = MtgPack(content, M21, None)
    /\ call' = NoCall
    /\ iterations' = 0
    /\ passes' = 0
    /\ picked' = <<>>
    /\ NoCheck
    /\ result' = NoResult
    /\ counted' = NoCount

\* the caller calls is_balanced on the pack it holds
UserIsBalanced(flag) ==
    /\ pc = "returned"
    /\ pc' = "is_balanced"
    /\ caller' = "user"
    /\ rebalance' = flag
    /\ slot_i' = 1
    /\ counted' = NoCount
    /\ picked' = <<>>
    /\ UNCHANGED <<pack, call, iterations, passes, depth, backups0, result>>

\* the caller calls count_cards_colors on the cards of one slot
UserCountCardsColors(i, count_hybrids) ==
    /\ pc = "returned"
    /\ i \in DOMAIN pack.content
    /\ IF NoDataIn(pack.content[i].cards)
       THEN Raised(pack)
       ELSE /\ counted' = [slot |-> i, count_hybrids |-> count_hybrids,
                           value |-> count_cards_colors(pack.content[i].cards,
                                                        count_hybrids)]
            /\ picked' = <<>>
            /\ UNCHANGED <<pc, pack, call, iterations, passes, caller, rebalance,
                           slot_i, depth, backups0, result>>

Next ==
    \/ \E set \in SetArgs, balance \in BOOLEAN, booster_type \in BoosterTypeArgs :
          GetPack(set, balance, booster_type) /\ UNCHANGED others
    \/ GetPackInternal /\ UNCHANGED others
    \/ IsBalancedSlot /\ UNCHANGED others
    \/ RebalanceCommons /\ UNCHANGED others
    \/ IsBalancedEnd /\ UNCHANGED others
    \/ \E content \in HandContents : UserMtgPack(content) /\ UNCHANGED others
    \/ \E flag \in BOOLEAN : UserIsBalanced(flag) /\ UNCHANGED others
    \/ \E i \in 1..3, count_hybrids \in BOOLEAN :
          UserCountCardsColors(i, count_hybrids) /\ UNCHANGED others

Spec == Init /\ [][Next]_vars

\* ------------------------------------------------------- the rules, as stated
\* the colors a card counts for, read off its mana cost
MonoColors(card) ==
    LET meta == CardsById[card.meta]
    IN  IF meta.mana_cost = <<>> THEN Range(meta.colors)
        ELSE {c \in Range(Colors) : \E i \in DOMAIN meta.mana_cost :
                                        meta.mana_cost[i] = <<c>>}

HybridColors(card) ==
    LET cost == CardsById[card.meta].mana_cost
    IN  {c \in Range(Colors) : \E i \in DOMAIN cost :
                                   Len(cost[i]) > 1 /\ c \in Range(cost[i])}

IsMono(card) == Cardinality(MonoColors(card)) = 1 /\ HybridColors(card) = {}
IsColorless(card) == MonoColors(card) = {} /\ HybridColors(card) = {}
IsHybrid(card) == MonoColors(card) = {} /\ Cardinality(HybridColors(card)) = 2

\* the buckets the card belongs to
BucketsOf(card, count_hybrids) ==
    IF IsMono(card) THEN MonoColors(card)
    ELSE IF IsColorless(card) THEN {"C"}
    ELSE IF IsHybrid(card) /\ count_hybrids THEN HybridColors(card)
    ELSE {}

InBucket(list, k) == {i \in DOMAIN list : k \in BucketsOf(list[i], TRUE)}

BalanceRule(slot) ==
    /\ \A c \in Range(Colors) : InBucket(slot.cards, c) # {}
    /\ \A k \in Range(Buckets) : Cardinality(InBucket(slot.cards, k)) <= 4
    /\ \E i \in DOMAIN slot.cards :
          "Creature" \in CardsById[slot.cards[i].meta].types

UncommonRule(slot) ==
    \A k \in Range(Buckets) : Cardinality(InBucket(slot.cards, k)) <= 2

Positions(content) ==
    UNION {{<<i, j>> : j \in DOMAIN content[i].cards} : i \in DOMAIN content}

\* two non-foil primary cards, in one slot or in two, have the same name
SameNameNonFoil(content) ==
    \E p, q \in Positions(content) :
        LET a == content[p[1]].cards[p[2]]
            b == content[q[1]].cards[q[2]]
        IN  /\ p # q
            /\ ~a.foil /\ ~b.foil
            /\ CardsById[a.meta].name = CardsById[b.meta].name

\* a card and a foil card of the same name are among the primary cards
FoilTwin(content) ==
    \E p, q \in Positions(content) :
        LET a == content[p[1]].cards[p[2]]
            b == content[q[1]].cards[q[2]]
        IN  ~a.foil /\ b.foil /\ CardsById[a.meta].name = CardsById[b.meta].name

Rules(content) ==
    /\ \A i \in DOMAIN content :
         LET slot == content[i]
         IN  IF slot.balance THEN BalanceRule(slot)
             ELSE (/\ ~slot.cards[1].foil
                   /\ CardsById[slot.cards[1].meta].rarity = "uncommon")
                  => UncommonRule(slot)
    /\ ~SameNameNonFoil(content)

\* a slot of the pack has given up a backup in a repair
Repaired ==
    /\ passes >= 1
    /\ \E i \in DOMAIN pack.content :
          pack.content[i].balance /\ Len(pack.content[i].backups) < NumOfBackups

True == [rebalance |-> TRUE, value |-> "True"]

\* -------------------------------------------------------------------- claims

\* C1: a get_pack call makes at most max_balancing_iterations sampling
\* passes; validation runs only while a retry is left, and the candidate of
\* the last allowed pass is returned as it is, valid or not.
C1_BoundedPasses ==
    /\ passes <= MaxBalancingIterations
    /\ pc = "internal" => iterations >= 1 /\ passes + iterations <= MaxBalancingIterations
    /\ caller = "get_pack" => passes < MaxBalancingIterations
    /\ (picked # <<>> /\ passes = MaxBalancingIterations)
          => pc = "returned" /\ pack.content # <<>>

\* every candidate before failed, and the last one, failing too, is returned
C1_Witness ==
    /\ pc = "returned" /\ picked # <<>>
    /\ MaxBalancingIterations > 1 /\ passes = MaxBalancingIterations
    /\ can_be_balanced(pack.content)
    /\ ~Rules(pack.content)

\* get_pack has returned the pack and nothing was done to it since
FromGetPack == pc = "returned" /\ passes >= 1 /\ (picked # <<>> \/ iterations > 1)

C3_AcceptedPackSatisfiesRules ==
    /\ []((pc = "returned" /\ result = True) => Rules(pack.content))
    /\ [][(/\ pc = "is_balanced" /\ pc' = "returned"
           /\ caller = "user" /\ ~rebalance
           /\ result = True)
          => result'.value = "True"]_vars

\* the user's is_balanced(rebalance=True) repaired the pack and accepted it
C3_Witness ==
    /\ pc = "returned" /\ iterations <= 1 /\ result = True
    /\ Repaired

\* C4: no step of is_balanced or rebalance_commons changes the number of
\* slots or the number of primary cards of a slot.
C4_RepairKeepsSize ==
    [][(pc \in {"is_balanced", "rebalance"} /\ pc' \in {"is_balanced", "rebalance", "returned"})
       => /\ Len(pack'.content) = Len(pack.content)
          /\ \A i \in DOMAIN pack.content :
                Len(pack'.content[i].cards) = Len(pack.content[i].cards)]_vars

\* a repair that swapped and then failed
C4_Witness ==
    /\ pc = "returned" /\ result = [rebalance |-> TRUE, value |-> "False"]
    /\ Repaired

\* the slot under repair
RepairSlot == pack.content[slot_i]

\* C5 as stated: a step of rebalance_commons leaves the cards held in cards
\* plus backups the same.
C5_CardsOnlyMove ==
    [][(pc = "rebalance" /\ pc' \in {"is_balanced", "rebalance", "returned"})
       => LET old == pack.content[slot_i]
              new == pack'.content[slot_i]
          IN  /\ Range(new.cards) \cup Range(new.backups)
                   = Range(old.cards) \cup Range(old.backups)
              /\ Len(new.cards) + Len(new.backups)
                   = Len(old.cards) + Len(old.backups)]_vars

\* C5 as amended: a step of rebalance_commons adds no card; it leaves the
\* slot as it is or puts one backup in the place of one primary card, takes
\* that backup out of backups and drops the replaced primary card from the
\* slot; the other slots stay as they are.
C5_SwapDropsPrimary ==
    [][(pc = "rebalance" /\ pc' \in {"is_balanced", "rebalance", "returned"})
       => /\ \A i \in DOMAIN pack.content :
                i # slot_i => pack'.content[i] = pack.content[i]
          /\ LET old == pack.content[slot_i]
                 new == pack'.content[slot_i]
             IN  \/ new = old
                 \/ \E a \in DOMAIN old.cards, b \in DOMAIN old.backups :
                      /\ new.cards = [old.cards EXCEPT ![a] = old.backups[b]]
                      /\ new.backups = SubSeq(old.backups, 1, b - 1)
                                        \o SubSeq(old.backups, b + 1, Len(old.backups))
                      /\ old.cards[a] \notin Range(new.cards) \cup Range(new.backups)
                      /\ new.balance = old.balance /\ new.name = old.name]_vars

C5_Witness == pc = "rebalance" /\ depth >= 1

\* C6: each rebalance_commons call that calls itself has taken one card out
\* of backups, so at most len(backups) + 1 calls nest.
C6_RepairDepthBounded ==
    pc = "rebalance"
       => /\ depth <= backups0
          /\ Len(RepairSlot.backups) = backups0 - depth

\* every backup is used up and the last call is running
C6_Witness == pc = "rebalance" /\ backups0 > 0 /\ depth = backups0

\* C7: is_balanced(rebalance=False) leaves the pack as it is, returns true
\* on a pack that satisfies the rules, and returns what the last call on the
\* same pack returned.
C7_ValidationChangesNothing ==
    [][(pc \in {"is_balanced", "rebalance"} /\ ~rebalance /\ pc' # "raised")
       => /\ pack' = pack
          /\ pc' = "returned"
               => /\ Rules(pack.content) => result'.value = "True"
                  /\ result.value # None => result'.value = result.value]_vars

\* a second is_balanced(rebalance=False) on a valid pack is about to return
C7_Witness ==
    /\ pc = "is_balanced" /\ caller = "user" /\ ~rebalance
    /\ slot_i > Len(pack.content)
    /\ result = [rebalance |-> FALSE, value |-> "True"]

\* C8: has_duplicates is true exactly when two non-foil primary cards have
\* the same name, and no pack with duplicates is accepted by is_balanced.
C8_DuplicatesExact ==
    /\ has_duplicates(pack.content) <=> SameNameNonFoil(pack.content)
    /\ (pc = "returned" /\ result.value = "True") => ~has_duplicates(pack.content)

\* a pack with a card and its foil twin is accepted
C8_Witness ==
    /\ pc = "returned" /\ result.value = "True"
    /\ FoilTwin(pack.content)

\* C9: each bucket count_cards_colors returns holds, in list order, the
\* cards that belong to it, and each count is the length of its bucket.
C9_ColorBuckets ==
    counted.slot # 0
       => LET list == pack.content[counted.slot].cards
          IN  \A k \in Range(Buckets) :
                /\ counted.value.counts[k] = Len(counted.value.colors[k])
                /\ counted.value.colors[k] =
                      SelectSeq(list, LAMBDA c : k \in BucketsOf(c, counted.count_hybrids))

\* hybrids were not counted for a list with a hybrid card in it
C9_Witness ==
    /\ counted.slot # 0 /\ ~counted.count_hybrids
    /\ \E i \in DOMAIN pack.content[counted.slot].cards :
          IsHybrid(pack.content[counted.slot].cards[i])

\* C10: the pack built by a sampling pass has, for each content entry of
\* one variation, pick count + backup count pairwise distinct picks of weight
\* > 0 of the entry's sheet, the first pick count of them as primary cards
\* and the others as backups; only a balance-required slot has backups.
C10_SamplingValid ==
    picked # <<>>
       => LET booster == Booster(sets[call.set], call.booster_type)
          IN  \E v \in DOMAIN booster.variations :
                LET entries == booster.variations[v].content
                IN  /\ Len(picked) = Len(entries)
                    /\ Len(pack.content) = Len(entries)
                    /\ \A i \in DOMAIN entries :
                         LET sheet == booster.sheets[entries[i].sheet]
                             n == entries[i].num_picks
                             bc == IF sheet.balance_colors THEN NumOfBackups ELSE 0
                             slot == pack.content[i]
                             Card(j) == [meta |-> picked[i][j].uuid, foil |-> sheet.is_foil]
                         IN  /\ Len(picked[i]) = n + bc
                             /\ \A j, k \in DOMAIN picked[i] :
                                   j # k => picked[i][j] # picked[i][k]
                             /\ \A j \in DOMAIN picked[i] :
                                   /\ picked[i][j] \in Range(sheet.cards)
                                   /\ picked[i][j].weight > 0
                             /\ slot.name = sheet.name
                             /\ slot.cards = [j \in 1..n |-> Card(j)]
                             /\ slot.backups = [j \in 1..bc |-> Card(n + j)]
                             /\ Range(slot.cards) \cap Range(slot.backups) = {}
                             /\ slot.has_backups = sheet.balance_colors
                             /\ slot.balance = sheet.balance_colors

\* a pass over a variation with a balance-required sheet has drawn its picks
C10_Witness ==
    /\ picked # <<>>
    /\ \E i \in DOMAIN pack.content :
          pack.content[i].balance /\ Len(pack.content[i].backups) = NumOfBackups

\* ------------------------------------------ get_pack called with bad requests
\* arguments of get_pack: an unknown set code, the arena prefix, booster
\* types the set has and types it does not have
ErrSetArgs == {<<"m", "i", "s">>, <<"x", "x", "x">>, <<"a", "-", "m", "i", "s">>}
ErrBoosterTypeArgs == {None, "draft", "collector", "arena", "play-arena"}

\* the caller calls get_pack(set, balance, booster_type)
GetPackCall(set, balance, booster_type) ==
    /\ GetPack(set, balance, booster_type)
    /\ job' = [op |-> "get_pack", set |-> set, balance |-> balance,
               booster_type |-> booster_type]
    /\ UNCHANGED <<catalog, probe>>

NextErrors ==
    \/ \E set \in ErrSetArgs, balance \in BOOLEAN, booster_type \in ErrBoosterTypeArgs :
          GetPackCall(set, balance, booster_type)
    \/ GetPackInternal /\ UNCHANGED others
    \/ IsBalancedSlot /\ UNCHANGED others
    \/ RebalanceCommons /\ UNCHANGED others
    \/ IsBalancedEnd /\ UNCHANGED others

SpecErrors == Init /\ [][NextErrors]_vars

\* the set argument of the running get_pack call: is the arena prefix on it,
\* and the set code it names
JobArena ==
    LET up == upper(job.set)
    IN  Len(up) >= 2 /\ up[1] = "A" /\ up[2] = "-"

JobSet ==
    LET up == upper(job.set)
    IN  IF JobArena THEN SubSeq(up, 3, Len(up)) ELSE up

\* C12 as stated: get_pack builds no pack when the set code is unknown or
\* when the requested booster type is not a booster of the set, and a pack
\* it builds for a requested type is of that type.
C12_NoSubstitution ==
    (job.op = "get_pack" /\ pack # NoPack)
       => /\ JobSet \in DOMAIN sets
          /\ job.booster_type # None
               => /\ job.booster_type \in BoosterNames(sets[JobSet])
                  /\ pack.type = job.booster_type

\* C12 as amended: get_pack raises and builds no pack when the set code is
\* unknown, and when a booster type requested without the arena prefix is
\* not a booster of the set, unless the type is the arena draft booster and
\* the set has a play-arena booster: then the play-arena booster is used.
\* Any other requested type is the type of the pack.
C12_RequestErrors ==
    (job.op = "get_pack" /\ pc # "internal")
       => LET known == JobSet \in DOMAIN sets
              bt == job.booster_type
              names == IF known THEN BoosterNames(sets[JobSet]) ELSE {}
              fallback == bt = "arena" /\ "play-arena" \in names
              bad == \/ ~known
                     \/ bt # None /\ ~JobArena /\ bt \notin names /\ ~fallback
          IN  IF bad THEN pc = "raised" /\ pack = NoPack
              ELSE (pack # NoPack /\ bt # None /\ ~JobArena)
                      => pack.type = (IF bt \in names THEN bt ELSE "play-arena")

\* a booster type the set does not have was requested, and get_pack raised
C12_Witness ==
    /\ job.op = "get_pack" /\ pc = "raised"
    /\ JobSet \in DOMAIN sets /\ ~JobArena
    /\ job.booster_type = "collector"

\* C19 as stated: a pack get_pack returns holds no card, primary or backup,
\* that was drawn from a sheet entry whose card id the card index lacks.
C19_DrawnMissingIdFails ==
    (job.op = "get_pack" /\ pc = "returned")
       => \A i \in DOMAIN pack.content :
             /\ ~NoDataIn(pack.content[i].cards)
             /\ ~NoDataIn(pack.content[i].backups)

\* ------------------------------------------------ booster resolution, alone
RECURSIVE InjSeqsUpTo(_, _)
InjSeqsUpTo(S, n) == IF n = 0 THEN {<<>>} ELSE InjSeqs(S, n) \cup InjSeqsUpTo(S, n - 1)

\* set codes and booster types (BoosterType values) of the tried catalogs
ResolveCodes == {<<"Z", "N", "R">>, <<"S", "I", "R">>, <<"P", "I", "O">>}
ResolveTypes == {"draft", "play", "default", "arena", "play-arena", "collector", "arena-1"}

\* a SetMeta with the given boosters, in the order of the relationship list
ResolveSet(code, names) ==
    [code |-> code, name |-> code,
     boosters |-> [i \in DOMAIN names |-> [name |-> names[i], set_code |-> code]]]

\* the arguments callers pass: lower case, with and without the arena prefix
ResolveSetArgs ==
    {<<"z", "n", "r">>, <<"s", "i", "r">>, <<"p", "i", "o">>,
     <<"a", "-", "z", "n", "r">>, <<"a", "-", "s", "i", "r">>, <<"A", "-", "P", "I", "O">>}
ResolveTypeArgs == {None, "draft", "play", "arena", "play-arena", "collector"}

ResolveProbes ==
    {[op |-> "get_set_booster_meta_pair", code |-> code, names |-> names,
      set |-> set, booster_type |-> booster_type, done |-> FALSE, out |-> Raise(None)] :
        code \in ResolveCodes, names \in InjSeqsUpTo(ResolveTypes, MaxBoosters),
        set \in ResolveSetArgs, booster_type \in ResolveTypeArgs}

InitResolve ==
    /\ InitPack
    /\ catalog = Catalog0
    /\ job = NoJob
    /\ probe \in ResolveProbes

\* get_set_booster_meta_pair(set, booster_type) is called
ResolveCall ==
    /\ probe.op = "get_set_booster_meta_pair"
    /\ ~probe.done
    /\ \E r \in Resolve([c \in {probe.code} |-> ResolveSet(probe.code, probe.names)],
                        probe.set, probe.booster_type) :
          probe' = [probe EXCEPT !.done = TRUE, !.out = r]
    /\ UNCHANGED <<packvars, catalog, job>>

NextResolve == ResolveCall

SpecResolve == InitResolve /\ [][NextResolve]_vars

\* the call of the probe: its set code as the claim reads it
ProbeArena ==
    LET up == upper(probe.set)
    IN  Len(up) >= 2 /\ up[1] = "A" /\ up[2] = "-"

ProbeCode ==
    LET up == upper(probe.set)
    IN  IF ProbeArena THEN SubSeq(up, 3, Len(up)) ELSE up

ProbeNames == Range(probe.names)

Resolved(b) == probe.out.ok /\ probe.out.booster = b /\ probe.out.set = ProbeCode

\* C13: with no booster type requested, no arena prefix and a set other than
\* SIR and PIO, resolution returns the set's draft booster if it has one,
\* else its play booster, else its default booster, else a booster the set
\* has; the booster returned is a booster of the set returned.
C13_DefaultResolution ==
    (/\ probe.op = "get_set_booster_meta_pair" /\ probe.done
     /\ probe.booster_type = None /\ ~ProbeArena
     /\ ProbeCode = probe.code
     /\ ProbeCode \notin {<<"S", "I", "R">>, <<"P", "I", "O">>}
     /\ ProbeNames # {})
       => /\ IF "draft" \in ProbeNames THEN Resolved("draft")
             ELSE IF "play" \in ProbeNames THEN Resolved("play")
             ELSE IF "default" \in ProbeNames THEN Resolved("default")
             ELSE \E b \in ProbeNames : Resolved(b)
          /\ \E i \in DOMAIN probe.names :
                LET booster == ResolveSet(probe.code, probe.names).boosters[i]
                IN  booster.name = probe.out.booster /\ booster.set_code = probe.out.set

\* the set has none of draft, play and default, and a booster it has is returned
C13_Witness ==
    /\ probe.op = "get_set_booster_meta_pair" /\ probe.done
    /\ probe.booster_type = None /\ ~ProbeArena /\ ProbeCode = probe.code
    /\ probe.names = <<"collector", "arena">>
    /\ Resolved("collector")

\* C14: for a set code with the A- prefix the set is looked up without the
\* prefix and the booster returned is the set's DRAFT_ARENA booster, or its
\* PLAY_ARENA booster when it has no DRAFT_ARENA; a requested type that is
\* not an arena type fails, and so does a set with neither arena booster.
C14_ArenaResolution ==
    (probe.op = "get_set_booster_meta_pair" /\ probe.done /\ ProbeArena)
       => IF \/ probe.booster_type \notin {None, "arena", "play-arena"}
             \/ ProbeCode # probe.code
             \/ ProbeNames \cap {"arena", "play-arena"} = {}
          THEN ~probe.out.ok
          ELSE IF "arena" \in ProbeNames THEN Resolved("arena")
          ELSE Resolved("play-arena")

\* a prefixed set without DRAFT_ARENA resolves to its PLAY_ARENA booster
C14_Witness ==
    /\ probe.op = "get_set_booster_meta_pair" /\ probe.done /\ ProbeArena
    /\ "arena" \notin ProbeNames
    /\ Resolved("play-arena")

\* ------------------------------------------------------ comparison of sets
\* Strings that are compared with < are sequences of code points.
RECURSIVE StrLess(_, _)
\* str.__lt__: lexicographic order
StrLess(a, b) ==
    IF a = <<>> THEN b # <<>>
    ELSE IF b = <<>> THEN FALSE
    ELSE IF a[1] # b[1] THEN a[1] < b[1]
    ELSE StrLess(Tail(a), Tail(b))

\* SetMeta.__lt__
SetLt(self, other) == StrLess(self.release_date, other.release_date)

\* SetMeta.__eq__
SetEq(self, other) == self.name = other.name

\* names ("A", "AB", "B") and release dates ("19", "20", "21") of the sets
\* that are compared
SetNames == {<<65>>, <<65, 66>>, <<66>>}
SetDates == {<<49, 57>>, <<50, 48>>, <<50, 49>>}
SetMetas == {[name |-> n, release_date |-> r] : n \in SetNames, r \in SetDates}

NoCompare == [lt |-> FALSE, eq |-> FALSE, gt |-> FALSE]

InitSets ==
    /\ InitPack
    /\ catalog = Catalog0
    /\ job = NoJob
    /\ probe \in {[op |-> "compare", a |-> a, b |-> b, c |-> c, done |-> FALSE,
                   ab |-> NoCompare, bc |-> NoCompare, ac |-> NoCompare] :
                     a \in SetMetas, b \in SetMetas, c \in SetMetas}

\* x < y, x == y and y < x as SetMeta answers them
Compare(x, y) == [lt |-> SetLt(x, y), eq |-> SetEq(x, y), gt |-> SetLt(y, x)]

\* the three sets are compared with each other
CompareSets ==
    /\ probe.op = "compare"
    /\ ~probe.done
    /\ probe' = [probe EXCEPT !.done = TRUE,
                              !.ab = Compare(probe.a, probe.b),
                              !.bc = Compare(probe.b, probe.c),
                              !.ac = Compare(probe.a, probe.c)]
    /\ UNCHANGED <<packvars, catalog, job>>

NextSets == CompareSets

SpecSets == InitSets /\ [][NextSets]_vars

\* C18 as stated: of a < b, a == b and b < a exactly one holds, < is
\* transitive, and two sets of the same release date and different names are
\* ordered by name.
C18_TotalOrder ==
    (probe.op = "compare" /\ probe.done)
       => /\ \/ probe.ab.lt /\ ~probe.ab.eq /\ ~probe.ab.gt
             \/ ~probe.ab.lt /\ probe.ab.eq /\ ~probe.ab.gt
             \/ ~probe.ab.lt /\ ~probe.ab.eq /\ probe.ab.gt
          /\ (probe.ab.lt /\ probe.bc.lt) => probe.ac.lt
          /\ (probe.a.release_date = probe.b.release_date /\ probe.a.name # probe.b.name)
                => (probe.ab.lt <=> StrLess(probe.a.name, probe.b.name))

\* ------------------------------------------- several packs or decks at once
\* an optional argument: {} is None, {x} is the value x
The(opt) == CHOOSE x \in opt : TRUE

\* the codes MtgPackGenerator.__init__ keeps out of sets_with_boosters
NoRandomSets == {<<"J", "M", "P">>, <<"J", "2", "2">>, <<"J", "2", "5">>, <<"C", "L", "U">>}

\* a plausible slip: every set with a booster is in the list
SetsWithBoostersAll == SelectSeq(SetOrder, LAMBDA c : sets[c].boosters # <<>>)

\* self.sets_with_boosters as __init__ builds it
sets_with_boosters ==
    SelectSeq(SetOrder, LAMBDA c : sets[c].boosters # <<>> /\ c \notin NoRandomSets)

\* self.sets_with_decks
sets_with_decks == {<<"J", "M", "P">>, <<"J", "2", "2">>, <<"J", "2", "5">>}

\* numpy.random.choice(a, size=n, replace=replace): the samples it can
\* return, and the requests it refuses with ValueError
Choice(a, n, replace) ==
    {[i \in 1..n |-> a[f[i]]] :
        f \in {g \in [1..n -> DOMAIN a] :
                 replace \/ \A i, j \in 1..n : g[i] = g[j] => i = j}}

ChoiceRaises(a, n, replace) ==
    \/ a = <<>> /\ n > 0
    \/ ~replace /\ n > Len(a)

\* a plausible slip: the number of sets is not compared with n
RandomPacksAcceptsAll(list, n, replace) == TRUE

\* the assertion of get_random_packs
RandomPacksAccepts(list, n, replace) == replace \/ n <= Len(list)

\* a plausible slip: one call too many
GetPacksTodoOneMore(set, n) == [i \in 1..(n + 1) |-> set]

\* the get_pack calls of get_packs, in order: range(n) times the same set
GetPacksTodo(set, n) == [i \in 1..n |-> set]

\* the operation is still making its get_pack calls
Running == job.op \in {"get_packs", "get_random_packs"} /\ job.running

\* the public operation op starts; list is the list of sets it draws from
Job(op, set, list, n, replace, balance, booster_type) ==
    [op |-> op, set |-> set, list |-> list, n |-> n, replace |-> replace,
     balance |-> balance, booster_type |-> booster_type,
     todo |-> <<>>, out |-> <<>>, calls |-> 0, running |-> FALSE, error |-> None]

\* what the caller keeps of a pack get_pack returned: its set and type, the
\* number of sampling passes of its get_pack call, whether is_balanced
\* accepted it, and whether an accepted pack satisfies the rules
Summary ==
    [set |-> pack.set, type |-> pack.type, passes |-> passes,
     accepted |-> iterations > 1,
     ok |-> (iterations > 1) => Rules(pack.content)]

\* no get_pack call is under way: the packs made are in the list returned
NoGetPack ==
    /\ pc' = "idle"
    /\ pack' = NoPack
    /\ call' = NoCall
    /\ iterations' = 0
    /\ passes' = 0
    /\ picked' = <<>>
    /\ NoCheck
    /\ result' = NoResult
    /\ counted' = NoCount

\* the operation raises before its first get_pack call
Refuse(j, error) ==
    /\ job' = [j EXCEPT !.error = error]
    /\ NoGetPack

\* the list comprehension over todo begins: its first get_pack call, or the
\* empty list at once
Start(j, todo) ==
    IF todo = <<>>
    THEN job' = j /\ NoGetPack
    ELSE /\ job' = [j EXCEPT !.todo = todo, !.calls = 1, !.running = TRUE]
         /\ GetPack(Head(todo), j.balance, j.booster_type)

\* get_packs, lines 130-140
GetPacks(set, n, balance, booster_type) ==
    /\ ~Running
    /\ pc \in {"idle", "returned", "raised"}
    /\ Start(Job("get_packs", set, <<set>>, n, FALSE, balance, booster_type),
             GetPacksTodo(set, n))
    /\ UNCHANGED <<catalog, probe>>

\* get_random_packs, lines 232-249; sets is {} for None
GetRandomPacks(sets_arg, n, replace, balance, booster_type) ==
    LET list == IF sets_arg = {} THEN sets_with_boosters ELSE The(sets_arg)
        j == Job("get_random_packs", sets_arg, list, n, replace, balance, booster_type)
    IN  /\ ~Running
        /\ pc \in {"idle", "returned", "raised"}
        /\ IF ~RandomPacksAccepts(list, n, replace) THEN Refuse(j, "AssertionError")
           ELSE IF ChoiceRaises(list, n, replace) THEN Refuse(j, "ValueError")
           ELSE \E boosters \in Choice(list, n, replace) : Start(j, boosters)
        /\ UNCHANGED <<catalog, probe>>

\* a get_pack call of the list comprehension returned: the pack is kept and
\* the next call is made, or the list is returned
BatchCollect ==
    /\ Running
    /\ pc = "returned"
    /\ LET out == Append(job.out, Summary)
           rest == Tail(job.todo)
       IN  IF rest = <<>>
           THEN /\ job' = [job EXCEPT !.out = out, !.todo = rest, !.running = FALSE]
                /\ NoGetPack
           ELSE /\ job' = [job EXCEPT !.out = out, !.todo = rest, !.calls = @ + 1]
                /\ GetPack(Head(rest), job.balance, job.booster_type)
    /\ UNCHANGED <<catalog, probe>>

\* a get_pack call of the list comprehension raised: so does the operation,
\* and the packs made so far are lost
BatchRaise ==
    /\ Running
    /\ pc = "raised"
    /\ job' = [job EXCEPT !.out = <<>>, !.running = FALSE, !.error = "get_pack"]
    /\ NoGetPack
    /\ UNCHANGED <<catalog, probe>>

\* str.lower on the card names of the catalog
NameLower(name) ==
    CASE name = "Lightning Strike" -> "lightning strike"
      [] name = "Lightning Bolt" -> "lightning bolt"
      [] name = "Goblin Lore" -> "goblin lore"
      [] name = "Goblin Shortcutter" -> "goblin shortcutter"
      [] name = "Goblin Oriflamme" -> "goblin oriflamme"
      [] name = "Caves" -> "caves"
      [] OTHER -> name

\* SetMeta.card_by_name: the first card of self.cards the name matches
card_by_name(self, name, case_sensitive) ==
    LET hits == SelectSeq(self.cards, LAMBDA u :
                    /\ (CardsById[u].name = name \/ ~case_sensitive)
                    /\ (NameLower(CardsById[u].name) = NameLower(name) \/ case_sensitive))
    IN  IF hits = <<>> THEN None ELSE Head(hits)

\* the replacements dict of get_random_arena_jmp_decks, for the cards of
\* the catalog
replacements ==
    [n \in {"Lightning Bolt", "Goblin Lore"} |->
        IF n = "Lightning Bolt" THEN "Lightning Strike" ELSE "Goblin Oriflamme"]

RECURSIVE Copies(_, _)
Copies(x, n) == IF n = 0 THEN <<>> ELSE <<x>> \o Copies(x, n - 1)

RECURSIVE DeckCards(_, _)
\* the cards of a deck: each card of the sheet, weight times (lines 310-312)
DeckCards(sheet, i) ==
    IF i > Len(sheet.cards) THEN <<>>
    ELSE Copies(MtgCard(sheet.cards[i].uuid, sheet.is_foil), sheet.cards[i].weight)
         \o DeckCards(sheet, i + 1)

\* the pack get_random_decks makes of the deck d of the booster
Deck(set_meta, booster_meta, d) ==
    LET sheet == booster_meta.sheets[d.content[1].sheet]
    IN  [content |-> <<[name |-> "deck", cards |-> DeckCards(sheet, 1),
                        balance |-> FALSE]>>,
         set |-> set_meta.code, sheet |-> sheet.name, type |-> "jumpstart"]

\* get_random_decks, lines 296-324: the lists of packs it can return; the
\* empty set when it raises
get_random_decks(set, n, replace) ==
    IF upper(set) \notin sets_with_decks \/ upper(set) \notin DOMAIN sets THEN {}
    ELSE LET set_meta == sets[upper(set)]
         IN  IF "jumpstart" \notin BoosterNames(set_meta) THEN {}
             ELSE LET booster_meta == Booster(set_meta, "jumpstart")
                      all_decks == booster_meta.variations
                  IN  IF ChoiceRaises(all_decks, n, replace) THEN {}
                      ELSE {[i \in 1..n |-> Deck(set_meta, booster_meta, decks[i])] :
                               decks \in Choice(all_decks, n, replace)}

RECURSIVE ReplaceCards(_, _, _)
\* lines 281-292 on the cards i.. of one deck, with the set_code column of
\* the cards table as the loop finds it: the deck and the column after the
\* loop, ok false when the assertion fails
ReplaceCards(deck_cards, i, set_code) ==
    IF i > Len(deck_cards)
    THEN [cards |-> deck_cards, set_code |-> set_code, ok |-> TRUE]
    ELSE LET c == deck_cards[i]
         IN  IF ~HasData(c)
             THEN [cards |-> deck_cards, set_code |-> set_code, ok |-> FALSE]
             ELSE IF CardsById[c.meta].name \notin DOMAIN replacements
             THEN ReplaceCards(deck_cards, i + 1, set_code)
             ELSE LET r == replacements[CardsById[c.meta].name]
                      r_card == IF card_by_name(sets[M21], r, FALSE) # None
                                THEN card_by_name(sets[M21], r, FALSE)
                                ELSE card_by_name(sets[AJMP], r, FALSE)
                  IN  IF r_card = None
                      THEN [cards |-> deck_cards, set_code |-> set_code, ok |-> FALSE]
                      ELSE ReplaceCards([deck_cards EXCEPT ![i] = MtgCard(r_card, c.foil)],
                                        i + 1, [set_code EXCEPT ![r_card] = JMP])

RECURSIVE ReplaceDecks(_, _, _)
\* the loop over p_list, lines 279-292
ReplaceDecks(p_list, k, set_code) ==
    IF k > Len(p_list) THEN [packs |-> p_list, set_code |-> set_code, ok |-> TRUE]
    ELSE LET r == ReplaceCards(p_list[k].content[1].cards, 1, set_code)
         IN  IF ~r.ok THEN [packs |-> p_list, set_code |-> r.set_code, ok |-> FALSE]
             ELSE ReplaceDecks([p_list EXCEPT ![k].content[1].cards = r.cards],
                               k + 1, r.set_code)

\* the user calls get_random_decks
GetRandomDecks(set, n, replace) ==
    LET j == Job("get_random_decks", set, <<>>, n, replace, FALSE, "jumpstart")
    IN  /\ ~Running
        /\ pc \in {"idle", "returned", "raised"}
        /\ IF get_random_decks(set, n, replace) = {}
           THEN job' = [j EXCEPT !.error = "raised"]
           ELSE \E p_list \in get_random_decks(set, n, replace) :
                   job' = [j EXCEPT !.out = p_list]
        /\ NoGetPack
        /\ UNCHANGED <<catalog, probe>>

\* the user calls get_random_arena_jmp_decks, lines 251-294
GetRandomArenaJmpDecks(n, replace) ==
    LET j == Job("get_random_arena_jmp_decks", <<"J", "M", "P">>, <<>>, n, replace,
                 FALSE, "jumpstart")
    IN  /\ ~Running
        /\ pc \in {"idle", "returned", "raised"}
        /\ IF get_random_decks(<<"J", "M", "P">>, n, replace) = {}
           THEN job' = [j EXCEPT !.error = "raised"] /\ UNCHANGED catalog
           ELSE \E p_list \in get_random_decks(<<"J", "M", "P">>, n, replace) :
                   LET r == ReplaceDecks(p_list, 1, catalog.set_code)
                   IN  /\ job' = IF r.ok THEN [j EXCEPT !.out = r.packs]
                                 ELSE [j EXCEPT !.error = "AssertionError"]
                       /\ catalog' = [catalog EXCEPT !.set_code = r.set_code]
        /\ NoGetPack
        /\ UNCHANGED probe

\* the requests made of get_packs and of get_random_packs
PacksArgs ==
    {[set |-> s, n |-> n, balance |-> b] :
        s \in {<<"t", "n", "y">>, <<"a", "-", "m", "i", "s">>, <<"a", "-", "t", "n", "y">>},
        n \in 0..MaxPacks, b \in BOOLEAN}
    \cup {[set |-> <<"m", "2", "1">>, n |-> 2, balance |-> TRUE]}

RandomPacksArgs ==
    {[sets |-> {}, n |-> n, replace |-> r, balance |-> FALSE] :
        n \in 0..1, r \in BOOLEAN}
    \cup {[sets |-> {l}, n |-> n, replace |-> r, balance |-> b] :
            l \in {<<>>, <<TNY>>, <<<<"t", "n", "y">>, <<"a", "-", "m", "i", "s">>>>},
            n \in 0..MaxPacks, r \in BOOLEAN, b \in BOOLEAN}

\* the user makes a request when no operation is under way
NextBatch ==
    \/ ~Running /\ \E a \in PacksArgs : GetPacks(a.set, a.n, a.balance, None)
    \/ ~Running /\ \E a \in RandomPacksArgs :
           GetRandomPacks(a.sets, a.n, a.replace, a.balance, None)
    \/ BatchCollect
    \/ BatchRaise
    \/ GetPackInternal /\ UNCHANGED others
    \/ IsBalancedSlot /\ UNCHANGED others
    \/ RebalanceCommons /\ UNCHANGED others
    \/ IsBalancedEnd /\ UNCHANGED others

SpecBatch == Init /\ [][NextBatch]_vars

\* the requests for decks
NextDecks ==
    \/ \E set \in {<<"j", "m", "p">>, <<"m", "2", "1">>}, n \in 0..(MaxPacks + 1),
          replace \in BOOLEAN : GetRandomDecks(set, n, replace)
    \/ \E n \in 0..(MaxPacks + 1), replace \in BOOLEAN : GetRandomArenaJmpDecks(n, replace)

SpecDecks == Init /\ [][NextDecks]_vars

\* the set code a set argument names: upper case, without the arena prefix
NamedSet(s) ==
    LET up == upper(s)
    IN  IF Len(up) >= 2 /\ up[1] = "A" /\ up[2] = "-" THEN SubSeq(up, 3, Len(up)) ELSE up

\* the operation returned its list
Done(op) == job.op = op /\ ~job.running /\ job.error = None

\* C11 as stated: the card catalog is read-only, no operation changes it.
C11_CatalogUnchanged == catalog = Catalog0

SetsWithABooster == {c \in SetCodes : sets[c].boosters # <<>>}

\* the sets of decks and the cube-like set, by their codes
DeckAndListCodes ==
    {<<"J", "M", "P">>, <<"J", "2", "2">>, <<"J", "2", "5">>, <<"C", "L", "U">>}

\* C16 as stated: without a list of sets, get_random_packs draws from
\* exactly the sets of the catalog that have at least one booster.
C16_DefaultAllSetsWithBoosters ==
    (job.op = "get_random_packs" /\ job.set = {})
       => Range(job.list) = SetsWithABooster

\* C16 as amended: without a list of sets, get_random_packs draws from
\* exactly the sets of the catalog that have at least one booster and are
\* none of JMP, J22, J25, CLU.
C16_DefaultSets ==
    (job.op = "get_random_packs" /\ job.set = {})
       => /\ Range(job.list) = SetsWithABooster \ DeckAndListCodes
          /\ \A i \in DOMAIN job.todo : job.todo[i] \in Range(job.list)
          /\ \A i \in DOMAIN job.out : job.out[i].set \in Range(job.list)

\* a pack of a set of the default list was returned
C16_Witness ==
    /\ Done("get_random_packs") /\ job.set = {}
    /\ Len(job.out) = 1 /\ job.out[1].set = TNY

cards_by_scryfall_id == [s \in {"sf-rr1", "sf-rm1"} |-> IF s = "sf-rr1" THEN "rr1" ELSE "rm1"]

ScryfallIds == {"sf-rr1", "sf-rm1", "sf-none"}

\* CardDb.get_card_by_scryfall_id
get_card_by_scryfall_id(scryfall_id) ==
    IF scryfall_id \in DOMAIN cards_by_scryfall_id
    THEN cards_by_scryfall_id[scryfall_id] ELSE None

\* the number of cards of the fallback format (generator.py:350 has 15; the
\* draw is the same for every value, and fails alike on a smaller mainboard)
FallbackCards == 2

RECURSIVE SeqsUpTo(_, _)
\* the sequences over S of length at most n
SeqsUpTo(S, n) ==
    IF n = 0 THEN {<<>>}
    ELSE LET shorter == SeqsUpTo(S, n - 1)
         IN  shorter \cup {Append(s, x) : s \in {q \in shorter : Len(q) = n - 1}, x \in S}

\* the tags of the cards and of the slots
CubeTags == {"X", "Y"}

\* a slot of a pack of a format: the text before the colon and the text
\* after it
CubeSlot(prefix, tag) == [prefix |-> prefix, tag |-> tag]

\* the slot lists of the formats
CubeSlots ==
    {<<CubeSlot("t", "X")>>,
     <<CubeSlot("tag", "X"), CubeSlot("t", "Y")>>,
     <<CubeSlot("t", "Y"), CubeSlot("tag", "X"), CubeSlot("t", "Y")>>,
     <<CubeSlot("t", "X"), CubeSlot("t", "X")>>,
     <<CubeSlot("rarity", "Rare")>>}

\* an entry of cube["cards"]["mainboard"]
CubeCards ==
    {[cardID |-> id, finish |-> f, tags |-> tags] :
        id \in ScryfallIds, f \in {"Non-foil"}, tags \in SeqsUpTo(CubeTags, MaxTags)}

\* the cubes: a mainboard of two cards, and formats[0] with its slots and
\* multiples, or no format at all (formats = 0: cube["formats"] is empty)
Cubes ==
    {[mainboard |-> <<a, b>>, formats |-> 1, slots |-> s, multiples |-> r] :
        a \in CubeCards, b \in CubeCards, s \in CubeSlots, r \in BOOLEAN}
      \cup {[mainboard |-> <<a, b>>, formats |-> 0, slots |-> <<>>, multiples |-> FALSE] :
               a \in CubeCards, b \in CubeCards}

\* the keys of Counter(list), in the order of their first occurrence
CounterKeys(list) ==
    LET firsts == SelectSeq([i \in DOMAIN list |-> i],
                            LAMBDA i : \A j \in 1..(i - 1) : list[j] # list[i])
    IN  [k \in DOMAIN firsts |-> list[firsts[k]]]

\* Counter(list)[x]
Count(list, x) == Cardinality({i \in DOMAIN list : list[i] = x})

\* a plausible slip: the slots are not asserted to be tag slots
SlotsAssertedAny(slots) == TRUE

\* lines 333-336: a slot that starts with neither tag: nor t: fails the
\* assertion
SlotsAsserted(slots) == \A i \in DOMAIN slots : slots[i].prefix \in {"tag", "t"}

RECURSIVE TagGroup(_, _, _)
\* cube_cards[tag] after the loops of lines 343-347 over the cards c..: the
\* mainboard positions appended, in order, once for each tag of the card
\* that equals tag
TagGroup(mainboard, tag, c) ==
    IF c > Len(mainboard) THEN <<>>
    ELSE Copies(c, Count(mainboard[c].tags, tag)) \o TagGroup(mainboard, tag, c + 1)

\* pack_format, replace and cube_cards as lines 332-352 leave them
CubeFormat(cube) ==
    IF cube.formats > 0 /\ SlotsAsserted(cube.slots)
    THEN LET slots == [i \in DOMAIN cube.slots |-> cube.slots[i].tag]
             keys == CounterKeys(slots)
         IN  [keys |-> keys,
              num |-> [i \in DOMAIN keys |-> Count(slots, keys[i])],
              replace |-> cube.multiples,
              cube_cards |-> [i \in DOMAIN keys |-> TagGroup(cube.mainboard, keys[i], 1)],
              fallback |-> FALSE]
    ELSE [keys |-> <<"cards">>, num |-> <<FallbackCards>>, replace |-> FALSE,
          cube_cards |-> <<[c \in DOMAIN cube.mainboard |-> c]>>,
          fallback |-> TRUE]

RECURSIVE PackLists(_, _)
\* lines 355-357: the lists the loop over pack_format can build from the
\* key i on
PackLists(f, i) ==
    IF i > Len(f.keys) THEN {<<>>}
    ELSE {a \o b : a \in Choice(f.cube_cards[i], f.num[i], f.replace),
                   b \in PackLists(f, i + 1)}

\* a choice of the loop raises ValueError
PackListRaises(f) ==
    \E i \in DOMAIN f.keys : ChoiceRaises(f.cube_cards[i], f.num[i], f.replace)

\* lines 359-368: the cards of the pack, the entries with an unknown id
\* left out; a card keeps the mainboard position it was drawn from
PackCards(cube, pack_list) ==
    LET known == SelectSeq(pack_list, LAMBDA c :
                     get_card_by_scryfall_id(cube.mainboard[c].cardID) # None)
    IN  [i \in DOMAIN known |->
            [card |-> MtgCard(get_card_by_scryfall_id(cube.mainboard[known[i]].cardID),
                              cube.mainboard[known[i]].finish # "Non-foil"),
             entry |-> known[i]]]

\* the content of the pack returned (lines 371-375)
CubeContent(pack_cards) ==
    <<[name |-> "pack", cards |-> [i \in DOMAIN pack_cards |-> pack_cards[i].card],
       balance |-> FALSE, has_backups |-> FALSE, backups |-> <<>>]>>

NoCubePack == [ok |-> FALSE, pack_list |-> <<>>, cards |-> <<>>, content |-> <<>>]

NoCubeFormat ==
    [keys |-> <<>>, num |-> <<>>, replace |-> FALSE, cube_cards |-> <<>>, fallback |-> FALSE]

InitCube ==
    /\ InitPack
    /\ catalog = Catalog0
    /\ job = NoJob
    /\ probe \in {[op |-> "get_cube_pack", cube |-> c, done |-> FALSE,
                   format |-> NoCubeFormat, out |-> NoCubePack] : c \in Cubes}

\* get_cube_pack, lines 329-375; MtgPack.__init__ without a set reads the
\* first card of the pack and raises IndexError when there is none
GetCubePack ==
    /\ probe.op = "get_cube_pack"
    /\ ~probe.done
    /\ IF PackListRaises(CubeFormat(probe.cube))
       THEN probe' = [probe EXCEPT !.done = TRUE, !.format = CubeFormat(probe.cube)]
       ELSE \E pack_list \in PackLists(CubeFormat(probe.cube), 1) :
               LET pack_cards == PackCards(probe.cube, pack_list)
               IN  probe' = [probe EXCEPT !.done = TRUE,
                                !.format = CubeFormat(probe.cube),
                                !.out = [ok |-> pack_cards # <<>>,
                                         pack_list |-> pack_list,
                                         cards |-> pack_cards,
                                         content |-> CubeContent(pack_cards)]]
    /\ UNCHANGED packvars
    /\ UNCHANGED <<catalog, job>>

NextCube == GetCubePack

SpecCube == InitCube /\ [][NextCube]_vars

\* the positions of the format's keys whose group holds the mainboard card c
GroupsOf(c) ==
    {i \in DOMAIN probe.format.keys : c \in Range(probe.format.cube_cards[i])}

\* the first tag of the card c that is a key of the format; 0 when none is
FirstMatching(c) ==
    LET tags == probe.cube.mainboard[c].tags
        hits == {t \in DOMAIN tags : tags[t] \in Range(probe.format.keys)}
    IN  IF hits = {} THEN 0 ELSE CHOOSE t \in hits : \A u \in hits : t <= u

\* C20 as stated: a mainboard card with a tag that matches a slot is in
\* exactly one tag group, that of its first matching tag, and without
\* multiples no mainboard entry is more than once in the pack.
C20_OneGroupPerCard ==
    (probe.op = "get_cube_pack" /\ probe.done /\ ~probe.format.fallback) =>
        /\ \A c \in DOMAIN probe.cube.mainboard :
              FirstMatching(c) # 0 =>
                 /\ Cardinality(GroupsOf(c)) = 1
                 /\ \A i \in GroupsOf(c) :
                       probe.format.keys[i] = probe.cube.mainboard[c].tags[FirstMatching(c)]
        /\ (probe.out.ok /\ ~probe.cube.multiples) =>
              \A i, j \in DOMAIN probe.out.cards :
                 probe.out.cards[i].entry = probe.out.cards[j].entry => i = j

\* ------------------------------------------------------- the repair, closer
\* the primary colors no card of list has
MissingColors(list) == {c \in Range(Colors) : InBucket(list, c) = {}}

\* rebalance_commons has made a swap and called itself
SwapStep == pc = "rebalance" /\ pc' = "rebalance" /\ depth' = depth + 1

\* C25 as stated: a swap of rebalance_commons empties no primary color that
\* had a card in the slot, and leaves fewer primary colors without a card
\* than it found.
C25_SwapEmptiesNoColor ==
    [][SwapStep =>
          LET before == MissingColors(pack.content[slot_i].cards)
              after == MissingColors(pack'.content[slot_i].cards)
          IN  /\ after \subseteq before
              /\ Cardinality(after) < Cardinality(before)]_vars

\* ------------------------------------------------- slots built by hand
\* Slots a caller of MtgPack(content) can hand in, chosen for the branches of
\* is_balanced and rebalance_commons that the sheets of M21 never reach.
HandSlot(name, primary, balance, backups) ==
    [name |-> name, cards |-> primary, balance |-> balance,
     has_backups |-> balance, backups |-> backups]

Card(u) == MtgCard(u, FALSE)
Foil(u) == MtgCard(u, TRUE)

BalanceSlots ==
    {\* three colorless cards, colorless alone holds the maximum
     HandSlot("common", <<Card("x1"), Card("z1"), Card("ld1"), Card("g1"), Card("w1")>>,
              TRUE, <<Card("h1"), Card("h2")>>),
     \* white holds the maximum and its last card is the only blue one
     HandSlot("common", <<Card("h2"), Card("w1"), Card("h1")>>,
              TRUE, <<Card("g1"), Card("g2")>>),
     \* blue is missing and has no backup, black and red have one
     HandSlot("common", <<Card("g1"), Card("g2"), Card("w1")>>,
              TRUE, <<Card("h2"), Card("x1")>>),
     \* green is missing and has a backup, no color has two cards
     HandSlot("common", <<Card("h1"), Card("h2")>>, TRUE, <<Card("g1")>>),
     \* every primary color once, five colorless cards
     HandSlot("common", <<Card("h1"), Card("h2"), Card("g1"), Card("x1"), Card("z1"),
                          Card("ld1"), Foil("x1"), Foil("z1")>>, TRUE, <<>>),
     \* every primary color once, a creature
     HandSlot("common", <<Card("h1"), Card("h2"), Card("g1")>>, TRUE, <<>>)}

OtherSlots ==
    {\* a non-foil uncommon first, then three colorless commons
     HandSlot("uncommon", <<Card("ug1"), Card("x1"), Card("z1"), Card("ld1")>>, FALSE, <<>>),
     \* three red uncommons, the first one foil
     HandSlot("uncommon", <<Foil("jb"), Card("jl"), Card("go")>>, FALSE, <<>>),
     \* a common first, then three red uncommons
     HandSlot("uncommon", <<Card("ls"), Card("jb"), Card("jl"), Card("go")>>, FALSE, <<>>),
     \* three red uncommons
     HandSlot("uncommon", <<Card("jb"), Card("jl"), Card("go")>>, FALSE, <<>>),
     \* two red uncommons
     HandSlot("uncommon", <<Card("jb"), Card("jl")>>, FALSE, <<>>),
     \* a green-white hybrid and two white cards
     HandSlot("uncommon", <<Card("uw3"), Card("uw1"), Card("w1")>>, FALSE, <<>>),
     \* no cards
     HandSlot("uncommon", <<>>, FALSE, <<>>)}

SlotContents ==
    {<<s>> : s \in BalanceSlots \cup OtherSlots}
        \cup {<<b, o>> : b \in BalanceSlots, o \in OtherSlots}
        \cup {<<o, b>> : o \in OtherSlots, b \in BalanceSlots}

NextHand ==
    \/ \E content \in SlotContents : UserMtgPack(content) /\ UNCHANGED others
    \/ \E flag \in BOOLEAN : UserIsBalanced(flag) /\ UNCHANGED others
    \/ IsBalancedSlot /\ UNCHANGED others
    \/ RebalanceCommons /\ UNCHANGED others
    \/ IsBalancedEnd /\ UNCHANGED others

SpecHand == Init /\ [][NextHand]_vars

\* how many cards of list each bucket holds, a hybrid in both its colors
CountIn(list, k) == Cardinality(InBucket(list, k))

MaxIn(list) ==
    CHOOSE v \in {CountIn(list, k) : k \in Range(Buckets)} :
        \A k \in Range(Buckets) : CountIn(list, k) <= v

\* the first color, in the order W, U, B, R, G, that no card of list has
FirstMissing(list) ==
    Colors[CHOOSE i \in 1..5 : /\ InBucket(list, Colors[i]) = {}
                               /\ \A j \in 1..(i - 1) : InBucket(list, Colors[j]) # {}]

\* is_balanced or rebalance_commons has refused the pack
Refused == pc' # "is_balanced" /\ (pc' = "returned" => result'.value = "False")

\* is_balanced has accepted the slot and gone on
Accepted == pc' = "is_balanced" /\ slot_i' = slot_i + 1

\* C26: a swap brings in a backup of the first missing color (W, U, B, R, G)
\* and takes out a card of a color whose count is the maximum of the six
\* buckets and above 1, a colorless one only when colorless alone holds the
\* maximum; without a backup of the first missing color, or with a maximum
\* of 1, the repair fails and swaps nothing.
C26_SwapChoice ==
    [][(pc = "rebalance" /\ MissingColors(pack.content[slot_i].cards) # {}) =>
          LET slot == pack.content[slot_i]
              first == FirstMissing(slot.cards)
              max == MaxIn(slot.cards)
              holders == {k \in Range(Buckets) : CountIn(slot.cards, k) = max}
          IN  IF InBucket(slot.backups, first) = {} \/ max <= 1
              THEN ~SwapStep /\ Refused /\ (pc' = "returned" => pack' = pack)
              ELSE /\ SwapStep
                   /\ Len(pack'.content[slot_i].cards) = Len(slot.cards)
                   /\ \E i \in DOMAIN slot.cards :
                        LET after == pack'.content[slot_i]
                            swap == slot.cards[i]
                            bkp == after.cards[i]
                        IN  /\ \A j \in DOMAIN slot.cards :
                                  j # i => after.cards[j] = slot.cards[j]
                            /\ bkp \in Range(slot.backups)
                            /\ first \in BucketsOf(bkp, TRUE)
                            /\ after.backups = SelectSeq(slot.backups, LAMBDA c : c # bkp)
                            /\ max > 1
                            /\ BucketsOf(swap, TRUE) \cap holders # {}
                            /\ BucketsOf(swap, TRUE) = {"C"} => holders = {"C"}]_vars

\* two swaps were made: the first took a colorless card while colorless alone
\* held the maximum, the second a white one while white and colorless tied
C26_Witness ==
    /\ pc = "rebalance" /\ depth = 2
    /\ LET slot == pack.content[slot_i]
       IN  /\ CountIn(slot.cards, "C") = 2
           /\ Len(slot.cards) = 5
           /\ slot.backups = <<>>
           /\ MissingColors(slot.cards) = {}

\* C29: max_cards_per_color is the largest of the six bucket counts, the
\* colorless one included and a hybrid counted in both its colors; a
\* balance-required slot with every primary color and more than 4 colorless
\* cards is refused, and so is a slot whose first card is a non-foil uncommon
\* and which holds more than 2 colorless cards.
C29_MaxOverSixBuckets ==
    [][(pc = "is_balanced" /\ slot_i <= Len(pack.content)) =>
          LET slot == pack.content[slot_i]
          IN  /\ max_cards_per_color(slot) = MaxIn(slot.cards)
              /\ (/\ slot.balance
                  /\ MissingColors(slot.cards) = {}
                  /\ CountIn(slot.cards, "C") > 4) => Refused
              /\ (/\ ~slot.balance
                  /\ slot.cards # <<>>
                  /\ ~slot.cards[1].foil
                  /\ CardsById[slot.cards[1].meta].rarity = "uncommon"
                  /\ CountIn(slot.cards, "C") > 2) => Refused]_vars

\* the pack was refused for its colorless cards alone
C29_Witness ==
    /\ pc = "returned" /\ result.value = "False"
    /\ Len(pack.content) = 1
    /\ LET slot == pack.content[1]
       IN  /\ slot.balance
           /\ CountIn(slot.cards, "C") > 4
           /\ \A c \in Range(Colors) : CountIn(slot.cards, c) \in 1..4
           /\ contains_creature(slot)
           /\ ~has_duplicates(pack.content)

\* C30: a slot that is not balance-required is held to at most 2 cards per
\* color exactly when its first card is a non-foil uncommon, whatever its
\* other cards are; with no cards it makes is_balanced raise.
C30_FirstCardDecides ==
    [][(pc = "is_balanced" /\ slot_i <= Len(pack.content)
                           /\ ~pack.content[slot_i].balance) =>
          LET slot == pack.content[slot_i]
          IN  IF slot.cards = <<>> THEN pc' = "raised"
              ELSE IF /\ ~slot.cards[1].foil
                      /\ CardsById[slot.cards[1].meta].rarity = "uncommon"
                      /\ ~UncommonRule(slot)
                   THEN Refused
                   ELSE Accepted]_vars

\* a slot of three red uncommons, the first one foil, was accepted
C30_Witness ==
    /\ pc = "returned" /\ result.value = "True"
    /\ \E i \in DOMAIN pack.content :
          LET slot == pack.content[i]
          IN  /\ ~slot.balance
              /\ slot.cards[1].foil
              /\ CountIn(slot.cards, "R") = 3
              /\ \A j \in DOMAIN slot.cards :
                    CardsById[slot.cards[j].meta].rarity = "uncommon"

\* ------------------------------------------------------ the cards property
\* slots of the packs whose cards are listed: rarities, foils and lands mixed
SortSlots ==
    {HandSlot("a", <<Card("g1"), Card("rr1"), Card("uw1")>>, FALSE, <<>>),
     HandSlot("b", <<Card("ld1"), Foil("uw1"), Card("g2")>>, FALSE, <<>>),
     HandSlot("c", <<Card("bf"), Foil("ld1"), Card("ug1")>>, FALSE, <<>>),
     HandSlot("d", <<Foil("rr1"), Card("w1")>>, TRUE, <<Card("rm1"), Card("x1")>>),
     HandSlot("e", <<>>, FALSE, <<>>)}

SortContents == SeqsUpTo(SortSlots, MaxSlots)

\* a caller builds a pack by hand; no property of it has been read
NewPack(content) ==
    /\ UserMtgPack(content)
    /\ probe' = NoProbe
    /\ UNCHANGED <<catalog, job>>

\* the caller reads pack.cards (mtg_pack.py:29-35): a new list is built and
\* sorted, the pack is left alone
Cards ==
    /\ pc = "returned"
    /\ probe' = [op |-> "cards", value |-> cards(pack.content)]
    /\ UNCHANGED <<packvars, catalog, job>>

NextCards ==
    \/ \E content \in SortContents : NewPack(content)
    \/ Cards

SpecCards == Init /\ [][NextCards]_vars

\* the key as the rules give it: lands that are common or basic (both counts
\* twice) after the rest, then foils after non-foils, then the rarity rank
LandTier(card) ==
    LET meta == CardsById[card.meta]
    IN  IF "Land" \notin meta.types THEN 0
        ELSE BoolInt(meta.rarity = "common") + BoolInt("Basic" \in meta.supertypes)

RarityRank(card) ==
    CHOOSE i \in 0..5 : RarityOrder[i + 1] = CardsById[card.meta].rarity

SortKey(card) == <<LandTier(card), BoolInt(card.foil), RarityRank(card)>>

Before(a, b) ==
    \/ a[1] < b[1]
    \/ a[1] = b[1] /\ a[2] < b[2]
    \/ a[1] = b[1] /\ a[2] = b[2] /\ a[3] < b[3]

RECURSIVE Primary(_, _)
\* the primary cards of the slots i.., slot after slot
Primary(content, i) ==
    IF i > Len(content) THEN <<>>
    ELSE content[i].cards \o Primary(content, i + 1)

Sampled == pc = "internal" /\ pc' # "raised"

\* the lists of every slot of pack' are the picks of the pass, primary cards
\* first, untouched
AsSampled ==
    /\ Len(pack'.content) = Len(picked')
    /\ \A i \in DOMAIN pack'.content :
          LET slot == pack'.content[i]
              all == slot.cards \o slot.backups
          IN  /\ [j \in DOMAIN all |-> all[j].meta]
                    = [j \in DOMAIN picked'[i] |-> picked'[i][j].uuid]
              /\ Len(slot.backups) = IF slot.balance THEN NumOfBackups ELSE 0

\* the pass returns its pack to the caller of get_pack, not validated
ReturnedUnchecked == pc' = "returned" /\ result' = NoResult /\ AsSampled

\* C24 as stated: a pack without a balance-required slot that get_pack
\* returns is the pack of the only sampling pass of the call.
C24_OnePass ==
    (FromGetPack /\ picked # <<>> /\ ~can_be_balanced(pack.content)) => passes = 1

\* C24 as amended: the sampling pass that chooses a variation without a
\* balance-required sheet is the last pass of the call and its pack is
\* returned without validation or repair, whatever iterations are left; it
\* is the only pass when it is the first.
C24_UnbalancedPassReturns ==
    [][(Sampled /\ ~can_be_balanced(pack'.content)) =>
          /\ ReturnedUnchecked
          /\ passes' = passes + 1
          /\ iterations \in 1..MaxBalancingIterations]_vars

\* the first pass chose the variation without a balance-required sheet
C24_Witness ==
    /\ FromGetPack /\ picked # <<>> /\ passes = 1
    /\ ~can_be_balanced(pack.content)
    /\ result = NoResult
    /\ Len(pack.content) = 3

\* C27: with one iteration left is_balanced is not called: the pack of that
\* pass is returned with the primary and backup lists as sampled, so that
\* is_balanced runs for get_pack only while more than one iteration is left.
C27_LastAttemptUnchecked ==
    [][/\ (Sampled /\ iterations <= 1) => ReturnedUnchecked
       /\ (pc' \in {"is_balanced", "rebalance"} /\ caller' = "get_pack")
             => iterations' > 1]_vars

\* the budget is used up and the pack returned misses a color that its
\* backups have
C27_Witness ==
    /\ FromGetPack /\ picked # <<>> /\ passes = MaxBalancingIterations
    /\ result = NoResult
    /\ \E i \in DOMAIN pack.content :
          LET slot == pack.content[i]
          IN  /\ slot.balance
              /\ Len(slot.backups) = NumOfBackups
              /\ \E c \in MissingColors(slot.cards) : InBucket(slot.backups, c) # {}

\* ------------------------------------------------ the resolution of a retry
\* _get_pack_internal calls itself (lines 227-229) after the attempt whose
\* resolution is probe.out: the new attempt resolves its arguments
RetryCall ==
    /\ probe.op = "get_set_booster_meta_pair"
    /\ probe.done /\ probe.out.ok
    /\ job = NoJob
    /\ LET args == RetryArgs(probe.out)
       IN  \E r \in Resolve([c \in {probe.code} |-> ResolveSet(probe.code, probe.names)],
                            args.set, args.booster_type) :
              job' = [op |-> "retry", args |-> args, out |-> r]
    /\ UNCHANGED <<packvars, catalog, probe>>

NextRetry ==
    \/ ResolveCall
    \/ RetryCall

SpecRetry == InitResolve /\ [][NextRetry]_vars

\* C28: a retry resolves to the set and the booster of the attempt before
\* it, also when that attempt took the booster type at random (SIR, PIO) or
\* from the A- prefix of the set code.
C28_RetrySameBooster ==
    job.op = "retry" => /\ job.out.ok
                        /\ job.out.set = probe.out.set
                        /\ job.out.booster = probe.out.booster

\* SIR had a draft booster too, the first attempt drew arena-1 and the retry
\* has resolved
C28_Witness ==
    /\ job.op = "retry"
    /\ probe.code = <<"S", "I", "R">> /\ ~ProbeArena
    /\ probe.booster_type = None
    /\ ProbeNames = {"draft", "arena-1"}
    /\ job.out.booster = "arena-1"

\* ------------------------------------------------------------- get_pack_ev
\* Prices are whole cents; a float the code computes is the exact fraction
\* [n, d] of cents.  An optional price is {} (None) or {p}.
Frac(n, d) == [n |-> n, d |-> d]
FracAdd(x, y) == Frac(x.n * y.d + y.n * x.d, x.d * y.d)
FracTimes(x, n, d) == Frac(x.n * n, x.d * d)

\* round(x, 2): the whole cents nearest to x; a tie goes the way the binary
\* float happens to lie, either way here
Round2(x) == {k \in 0..(x.n \div x.d + 1) : 2 * (k * x.d - x.n) \in (0 - x.d)..x.d}

\* the answers of the price lookup: rare is what card.get_price returns for
\* the non-foil rr1, plain for every other non-foil card, foil for foil cards
get_price(prices, card) ==
    IF card.foil THEN prices.foil
    ELSE IF card.meta = "rr1" THEN prices.rare ELSE prices.plain

RECURSIVE SheetTotalNoThreshold(_, _, _, _)
\* a plausible slip: the bulk threshold is not applied
SheetTotalNoThreshold(sheet_meta, prices, bulk_threshold, i) ==
    IF i > Len(sheet_meta.cards) THEN 0
    ELSE LET price == get_price(prices, MtgCard(sheet_meta.cards[i].uuid,
                                                sheet_meta.is_foil))
         IN  (IF price # {} THEN The(price) * sheet_meta.cards[i].weight ELSE 0)
                 + SheetTotalNoThreshold(sheet_meta, prices, bulk_threshold, i + 1)

RECURSIVE sheet_total(_, _, _, _)
\* sheet_total after the loop over the sheet cards i.. (lines 388-393)
sheet_total(sheet_meta, prices, bulk_threshold, i) ==
    IF i > Len(sheet_meta.cards) THEN 0
    ELSE LET price == get_price(prices, MtgCard(sheet_meta.cards[i].uuid,
                                                sheet_meta.is_foil))
         IN  (IF price # {} /\ The(price) # 0 /\ The(price) >= bulk_threshold
              THEN The(price) * sheet_meta.cards[i].weight
              ELSE 0)
                 + sheet_total(sheet_meta, prices, bulk_threshold, i + 1)

\* sheets_ev[sheet_meta.name] (line 394)
sheets_ev(sheet_meta, prices, bulk_threshold) ==
    Frac(sheet_total(sheet_meta, prices, bulk_threshold, 1),
         total_weight(sheet_meta.cards))

RECURSIVE composition_ev(_, _, _, _, _)
\* the sum of lines 398-403 over the content entries i..
composition_ev(booster_meta, composition, prices, bulk_threshold, i) ==
    IF i > Len(composition.content) THEN Frac(0, 1)
    ELSE LET content == composition.content[i]
             ev == sheets_ev(booster_meta.sheets[content.sheet], prices, bulk_threshold)
         IN  FracAdd(FracTimes(ev, content.num_picks, 1),
                     composition_ev(booster_meta, composition, prices,
                                    bulk_threshold, i + 1))

RECURSIVE booster_ev(_, _, _, _)
\* booster_ev after the loop over the variations i.. (lines 396-406)
booster_ev(booster_meta, prices, bulk_threshold, i) ==
    IF i > Len(booster_meta.variations) THEN Frac(0, 1)
    ELSE LET composition == booster_meta.variations[i]
         IN  FracAdd(FracTimes(composition_ev(booster_meta, composition, prices,
                                              bulk_threshold, 1),
                               composition.weight,
                               total_weight(booster_meta.variations)),
                     booster_ev(booster_meta, prices, bulk_threshold, i + 1))

\* get_pack_ev(set, currency, eur_usd_rate, bulk_threshold, booster_type):
\* the values it can return, or the error it raises
get_pack_ev(set, prices, bulk_threshold) ==
    UNION {IF ~r.ok THEN {r}
           ELSE LET booster_meta == Booster(sets[r.set], r.booster)
                IN  IF \/ total_weight(booster_meta.variations) = 0
                       \/ \E n \in DOMAIN booster_meta.sheets :
                             total_weight(booster_meta.sheets[n].cards) = 0
                    THEN {Raise("ZeroDivisionError")}
                    ELSE {[ok |-> TRUE, ev |-> k] :
                             k \in Round2(booster_ev(booster_meta, prices,
                                                     bulk_threshold, 1))} :
           r \in get_set_booster_meta_pair(set, None)}

\* prices in cents that the lookup answers, and None
Cents == {0, 1, 150, 300}
OptCents == {{}} \cup {{c} : c \in Cents}
Thresholds == {0, 100, 150, 200}

EvProbes ==
    {[op |-> "get_pack_ev", set |-> set,
      prices |-> [rare |-> a, plain |-> b, foil |-> c],
      bulk_threshold |-> th, done |-> FALSE, out |-> Raise(None)] :
        set \in {<<"m", "2", "1">>, <<"t", "n", "y">>},
        a \in OptCents, b \in OptCents, c \in OptCents, th \in Thresholds}

InitEv ==
    /\ InitPack
    /\ catalog = Catalog0
    /\ job = NoJob
    /\ probe \in EvProbes

GetPackEv ==
    /\ probe.op = "get_pack_ev"
    /\ ~probe.done
    /\ \E r \in get_pack_ev(probe.set, probe.prices, probe.bulk_threshold) :
          probe' = [probe EXCEPT !.done = TRUE, !.out = r]
    /\ UNCHANGED <<packvars, catalog, job>>

NextEv == GetPackEv

SpecEv == InitEv /\ [][NextEv]_vars

\* the booster of the probe (no booster type is requested)
EvBooster == sets[upper(probe.set)].boosters[1]

\* what a card adds to the numerator of its sheet
Worth(card) ==
    LET price == get_price(probe.prices, card)
    IN  IF price # {} /\ The(price) >= probe.bulk_threshold THEN The(price) ELSE 0

RECURSIVE SumOver(_)
\* the sum of the values of a function
SumOver(f) ==
    IF DOMAIN f = {} THEN 0
    ELSE LET x == CHOOSE x \in DOMAIN f : TRUE
         IN  f[x] + SumOver([y \in DOMAIN f \ {x} |-> f[y]])

RECURSIVE ProdOver(_)
ProdOver(f) ==
    IF DOMAIN f = {} THEN 1
    ELSE LET x == CHOOSE x \in DOMAIN f : TRUE
         IN  f[x] * ProdOver([y \in DOMAIN f \ {x} |-> f[y]])

SheetWeight(n) == SumOver([i \in DOMAIN EvBooster.sheets[n].cards |->
                              EvBooster.sheets[n].cards[i].weight])

\* the common denominator: the total variation weight times the total
\* weight of every sheet
EvDen ==
    SumOver([v \in DOMAIN EvBooster.variations |-> EvBooster.variations[v].weight])
        * ProdOver([n \in DOMAIN EvBooster.sheets |-> SheetWeight(n)])

\* the sum over variations, content entries and sheet cards of
\* variation weight x pick count x card weight x worth, over EvDen
EvNum ==
    SumOver([v \in DOMAIN EvBooster.variations |->
        EvBooster.variations[v].weight *
        SumOver([c \in DOMAIN EvBooster.variations[v].content |->
            LET content == EvBooster.variations[v].content[c]
                sheet == EvBooster.sheets[content.sheet]
            IN  content.num_picks
                  * ProdOver([n \in DOMAIN EvBooster.sheets \ {content.sheet} |->
                                 SheetWeight(n)])
                  * SumOver([i \in DOMAIN sheet.cards |->
                        sheet.cards[i].weight
                          * Worth(MtgCard(sheet.cards[i].uuid, sheet.is_foil))])])])

\* cards per pack, times the total variation weight
EvCards ==
    SumOver([v \in DOMAIN EvBooster.variations |->
        EvBooster.variations[v].weight *
        SumOver([c \in DOMAIN EvBooster.variations[v].content |->
            EvBooster.variations[v].content[c].num_picks])])

EvWeight ==
    SumOver([v \in DOMAIN EvBooster.variations |-> EvBooster.variations[v].weight])

EvDone == probe.op = "get_pack_ev" /\ probe.done /\ probe.out.ok

\* every card has the same price, at or above the threshold
SamePrice(p) ==
    /\ probe.prices = [rare |-> {p}, plain |-> {p}, foil |-> {p}]
    /\ p >= probe.bulk_threshold

\* C22 as stated: get_pack_ev returns the weighted sum itself, and with one
\* price p for every card p times the weighted average number of cards.
C22_EvIsTheSum ==
    EvDone => /\ probe.out.ev * EvDen = EvNum
              /\ \A p \in Cents : SamePrice(p) => probe.out.ev * EvWeight = p * EvCards

\* C22 as amended: get_pack_ev returns the weighted sum rounded to whole
\* cents (two decimals); a card without a price or priced below the
\* threshold adds nothing to the numerator of its sheet and keeps its weight
\* in the denominator; with one price p for every card the result is p times
\* the weighted average number of cards, rounded likewise.
C22_EvIsTheRoundedSum ==
    EvDone => /\ 2 * (probe.out.ev * EvDen - EvNum) \in (0 - EvDen)..EvDen
              /\ \A p \in Cents : SamePrice(p) =>
                    2 * (probe.out.ev * EvWeight - p * EvCards) \in (0 - EvWeight)..EvWeight

\* the rare has no price, the foils are below the threshold, and the value
\* returned is not the sum itself
C22_Witness ==
    /\ EvDone
    /\ probe.prices.rare = {}
    /\ probe.prices.plain = {150}
    /\ probe.prices.foil = {1}
    /\ probe.bulk_threshold = 100
    /\ probe.out.ev > 0
    /\ probe.out.ev * EvDen # EvNum

\* ------------------------------------------------------ cube packs, closer
CubeDone == probe.op = "get_cube_pack" /\ probe.done

\* the cube has a format and every slot of it is a tag slot
Tagged ==
    /\ probe.cube.formats > 0
    /\ \A i \in DOMAIN probe.cube.slots : probe.cube.slots[i].prefix \in {"tag", "t"}

\* the slots of the tag, and the times the mainboard cards carry it
SlotsOf(tag) == {i \in DOMAIN probe.cube.slots : probe.cube.slots[i].tag = tag}

Carried(tag) ==
    {<<c, k>> \in (DOMAIN probe.cube.mainboard) \X (1..MaxTags) :
        /\ k \in DOMAIN probe.cube.mainboard[c].tags
        /\ probe.cube.mainboard[c].tags[k] = tag}

\* the draw is possible: every tag has a card, and without multiples a card
\* for each of its slots; the fallback has FallbackCards mainboard entries
Supplied ==
    IF Tagged
    THEN \A tag \in CubeTags :
            SlotsOf(tag) # {} =>
               /\ Carried(tag) # {}
               /\ probe.cube.multiples
                     \/ Cardinality(SlotsOf(tag)) <= Cardinality(Carried(tag))
    ELSE Len(probe.cube.mainboard) >= FallbackCards

Known(c) == probe.cube.mainboard[c].cardID \in DOMAIN cards_by_scryfall_id

\* what the call has drawn: one entry per slot, or FallbackCards distinct
\* entries of the mainboard
DrawnAsDeclared ==
    IF Tagged
    THEN /\ Len(probe.out.pack_list) = Len(probe.cube.slots)
         /\ \A tag \in CubeTags :
               Cardinality({i \in DOMAIN probe.out.pack_list :
                               tag \in Range(probe.cube.mainboard[probe.out.pack_list[i]].tags)})
                  >= Cardinality(SlotsOf(tag))
    ELSE /\ Len(probe.out.pack_list) = FallbackCards
         /\ \A i, j \in DOMAIN probe.out.pack_list :
               probe.out.pack_list[i] = probe.out.pack_list[j] => i = j

\* the pack has one slot, not balance-required, with the drawn cards
OneSlot ==
    /\ probe.out.ok
    /\ Len(probe.out.content) = 1
    /\ ~probe.out.content[1].balance
    /\ Len(probe.out.content[1].cards) = Len(probe.out.pack_list)
    /\ \A i \in DOMAIN probe.out.pack_list :
          probe.out.content[1].cards[i].meta
             = cards_by_scryfall_id[probe.cube.mainboard[probe.out.pack_list[i]].cardID]

====
